---------------------------- MODULE Spec2Model ----------------------------
(***************************************************************************)
(* RocketMonitor, Raspberry Pi side: the detection-and-durable-capture     *)
(* pipeline of src/pi/src.                                                 *)
(*                                                                         *)
(*   DetSpec   the sampling driver (main.py), the ring buffer              *)
(*             (data_buffer.py) and the altitude analyzer (analyzer.py)    *)
(*   Spec      the DatabaseManager of database.py: save queue, write       *)
(*             worker, offline fallback files, resync thread, and the      *)
(*             MySQL server and file system they talk to                   *)
(*   FairSpec  Spec with the scheduling of the two daemon threads and an   *)
(*             environment whose outages stop                              *)
(*                                                                         *)
(* Time is in whole seconds.  Altitudes are whole metres.                  *)
(***************************************************************************)
EXTENDS Integers, Sequences, FiniteSets, TLC

\* Python's None, for an absent altitude and an unset time or id.
None == -1

(***************************************************************************)
(* Configuration.  Config loads it from a file over DEFAULT_CONFIG; the    *)
(* components read it in their constructors.  DefaultConfig is             *)
(* DEFAULT_CONFIG scaled down: one sample per second instead of five,      *)
(* windows of two seconds instead of three.                                *)
(***************************************************************************)
DefaultConfig ==
    [threshold_meters |-> 1, comparison_window_seconds |-> 2,
     stabilization_time_seconds |-> 2, sample_rate_hz |-> 1,
     ring_buffer_seconds |-> 3]

\* The model's horizon (seconds of wall-clock time) and the sensor's values.
MaxTime == 7
SensorAltitudes == {100, 101, 102}
\* Seconds between two driver iterations: the nominal interval, or a late tick.
Gaps == {1, 2}

VARIABLES
    \* ---- sampling driver, ring buffer, analyzer ----
    config,                   \* Config.config, the detection and buffer entries
    now,                      \* wall clock (time.time(), datetime.now())
    ring_buffer,              \* RingBuffer.buffer
    current_data,             \* the reading of the current driver iteration
    initialized,              \* AltitudeAnalyzer.initialized
    recording,                \* AltitudeAnalyzer.recording
    stable_since,             \* AltitudeAnalyzer.stable_since
    last_significant_change,  \* AltitudeAnalyzer.last_significant_change
    recording_buffer,         \* AltitudeAnalyzer.recording_buffer
    recording_start_time,     \* AltitudeAnalyzer.recording_start_time
    analyze_result,           \* what the last analyze call returned
    \* ---- DatabaseManager ----
    save_queue,               \* DatabaseManager.save_queue
    next_group,               \* the clock save_data derives event_group from
    submitted,                \* the sample lists save_data was called with, by event_group
    connection,               \* self.connection: "none", "up" or "down"
    raspberry_id,             \* DatabaseManager.raspberry_id
    id_found,                 \* DatabaseManager.id_found
    connection_attempts,      \* DatabaseManager._connection_attempts
    in_cooldown,              \* DatabaseManager._in_cooldown
    cooldown_left,            \* _cooldown_until - time.time(), floored at 0
    since_attempt,            \* time.time() - last_connection_attempt, capped
    sync_pc,                  \* the resync thread: "sleep" or "files"
    sync_files,               \* the files of its sweep not yet processed
    sync_id,                  \* its local raspberry_id
    sync_timer,               \* seconds slept in time.sleep(60), capped
    write_failed,             \* event groups whose offline write raised
    \* ---- MySQL server and file system ----
    db_up,                    \* the server accepts connections
    raspberry_pis,            \* rows of table raspberry_pis
    table,                    \* committed rows of the altitude table
    txn,                      \* rows inserted on the connection, not committed
    offline_files,            \* the .json files of offline_data_path, by mtime
    faults,                   \* failures injected so far
    \* ---- network.py: NetworkMonitor ----
    last_status,              \* self.last_status: "None", "True" or "False"
    status_change_callbacks,  \* self.status_change_callbacks, in order
    last_result,              \* what the last check_connection() returned
    invoked,                  \* the callback calls the last check made
    \* ---- the loops ----
    running,                  \* AltitudeMonitor.run is in its while loop
    save_thread_alive,        \* _process_save_queue is in its while loop
    sync_thread_alive,        \* _sync_offline_data is in its while loop
    inflight                  \* each thread's position inside an iteration

detVars == <<config, now, ring_buffer, current_data, initialized, recording, stable_since,
             last_significant_change, recording_buffer, recording_start_time,
             analyze_result>>

storeVars == <<save_queue, next_group, submitted, connection, raspberry_id, id_found,
               connection_attempts, in_cooldown, cooldown_left, since_attempt,
               sync_pc, sync_files, sync_id, sync_timer, write_failed,
               db_up, raspberry_pis, table, txn, offline_files, faults>>

netVars == <<last_status, status_change_callbacks, last_result, invoked>>

loopVars == <<running, save_thread_alive, sync_thread_alive>>

vars == <<detVars, storeVars, netVars, loopVars, inflight>>

\* What a step of the store, of the sampling driver and of the connectivity
\* monitor leaves alone.
notStoreVars == <<detVars, netVars, loopVars, inflight>>
notDetVars == <<storeVars, netVars, loopVars, inflight>>
notNetVars == <<detVars, storeVars, loopVars, inflight>>

\* config.get("detection", ...), config.get("sensor", ...), config.get("buffer", ...)
threshold_meters == config.threshold_meters
comparison_window == config.comparison_window_seconds
stabilization_time == config.stabilization_time_seconds
sample_rate_hz == config.sample_rate_hz
ring_buffer_seconds == config.ring_buffer_seconds

(***************************************************************************)
(* data_buffer.py                                                          *)
(***************************************************************************)
Reverse(s) == [i \in 1..Len(s) |-> s[Len(s) + 1 - i]]

buffer_size == ring_buffer_seconds * sample_rate_hz

\* a buffer that never evicts
RingBufferAdd_NoEvict(buf, data) == Append(buf, data)

\* RingBuffer.add: deque(maxlen=buffer_size).append
RingBufferAdd(buf, data) ==
    IF buffer_size = 0 THEN <<>>
    ELSE IF Len(buf) >= buffer_size THEN Append(Tail(buf), data)
    ELSE Append(buf, data)

\* RingBuffer.get_all: a copy of the buffer, oldest first
RingBufferGetAll(buf) == buf

\* a window that leaves out the reading exactly `seconds` old
InWindow_Strict(data, t, seconds) == data.timestamp > t - seconds

InWindow(data, t, seconds) == data.timestamp >= t - seconds

\* RingBuffer.get_last_n_seconds at wall-clock time t: iterates reversed(buffer)
GetLastNSeconds(buf, seconds, t) ==
    IF buf = <<>> THEN <<>>
    ELSE SelectSeq(Reverse(buf), LAMBDA d : InWindow(d, t, seconds))

(***************************************************************************)
(* analyzer.py                                                             *)
(***************************************************************************)
RECURSIVE SumSeq(_)
SumSeq(s) == IF s = <<>> THEN 0 ELSE Head(s) + SumSeq(Tail(s))

Abs(x) == IF x < 0 THEN -x ELSE x

\* The minimum without the factor 0.5.
min_samples_for_comparison_Full == comparison_window * sample_rate_hz

\* int(comparison_window * expected_sample_rate * 0.5)
min_samples_for_comparison == (comparison_window * sample_rate_hz) \div 2

\* [d["altitude"] for d in comparison_data if d["altitude"] is not None]
ValidAltitudes(comparison_data) ==
    LET valid == SelectSeq(comparison_data, LAMBDA d : d.altitude # None)
    IN  [i \in 1..Len(valid) |-> valid[i].altitude]

\* A strict comparison: a change of exactly threshold_meters is not significant.
SignificantChange_Strict(valid_altitudes, current_altitude) ==
    Abs(current_altitude * Len(valid_altitudes) - SumSeq(valid_altitudes))
        > threshold_meters * Len(valid_altitudes)

\* altitude_change >= threshold_meters, where altitude_change is
\* abs(current_altitude - sum(valid_altitudes) / len(valid_altitudes));
\* both sides are multiplied by len(valid_altitudes) to stay in the integers.
SignificantChange(valid_altitudes, current_altitude) ==
    Abs(current_altitude * Len(valid_altitudes) - SumSeq(valid_altitudes))
        >= threshold_meters * Len(valid_altitudes)

\* A strict comparison: the episode would end one tick late.
StabilizationElapsed_Strict(current_time, since) ==
    (current_time - since) > stabilization_time

\* (current_time - self.stable_since) >= self.stabilization_time
StabilizationElapsed(current_time, since) ==
    (current_time - since) >= stabilization_time

\* The detector's fields as one record, for Analyze.
Detector ==
    [initialized |-> initialized, recording |-> recording,
     stable_since |-> stable_since,
     last_significant_change |-> last_significant_change,
     recording_buffer |-> recording_buffer,
     recording_start_time |-> recording_start_time]

NoResult == [changed |-> FALSE, data |-> <<>>, saved |-> FALSE]

\* An append that adds the reading twice.
AppendIfRecording_Twice(st, data) ==
    IF st.recording
    THEN [st EXCEPT !.recording_buffer = Append(Append(@, data), data)]
    ELSE st

\* An early return that drops the reading.
AppendIfRecording_Never(st, data) == st

\* The early returns of analyze: (False, None), the reading appended to the
\* recording buffer when recording.
AppendIfRecording(st, data) ==
    IF st.recording
    THEN [st EXCEPT !.recording_buffer = Append(@, data)]
    ELSE st

\* The significant-change branch without the reset of stable_since.
OnSignificantChange_NoReset(st, buf, data, t) ==
    LET st1 == [st EXCEPT !.last_significant_change = t]
    IN  IF ~st.recording
        THEN [state |-> [st1 EXCEPT !.recording = TRUE,
                                    !.stable_since = None,
                                    !.recording_start_time = t,
                                    !.recording_buffer =
                                        Append(RingBufferGetAll(buf), data)],
              result |-> [changed |-> TRUE, data |-> <<>>, saved |-> FALSE]]
        ELSE [state |-> st1, result |-> NoResult]

\* The significant-change branch resetting stable_since only while an episode
\* is already running, not when one starts.
OnSignificantChange_NoResetOnStart(st, buf, data, t) ==
    LET st1 == [st EXCEPT !.last_significant_change = t]
    IN  IF ~st.recording
        THEN [state |-> [st1 EXCEPT !.recording = TRUE,
                                    !.recording_start_time = t,
                                    !.recording_buffer =
                                        Append(RingBufferGetAll(buf), data)],
              result |-> [changed |-> TRUE, data |-> <<>>, saved |-> FALSE]]
        ELSE [state |-> [st1 EXCEPT !.stable_since = None],
              result |-> NoResult]

\* The significant-change branch seeding the episode with the comparison
\* window only.
OnSignificantChange_WindowOnly(st, buf, data, t) ==
    LET st1 == [st EXCEPT !.last_significant_change = t, !.stable_since = None]
    IN  IF ~st.recording
        THEN [state |-> [st1 EXCEPT !.recording = TRUE,
                                    !.recording_start_time = t,
                                    !.recording_buffer =
                                        Append(SelectSeq(buf, LAMBDA d :
                                            InWindow(d, t, comparison_window)), data)],
              result |-> [changed |-> TRUE, data |-> <<>>, saved |-> FALSE]]
        ELSE [state |-> st1, result |-> NoResult]

\* analyze, from the threshold comparison on (lines 130-185).
\* st is the detector after the recording-buffer append of line 135-136.
OnSignificantChange(st, buf, data, t) ==
    LET st1 == [st EXCEPT !.last_significant_change = t, !.stable_since = None]
    IN  IF ~st.recording
        THEN [state |-> [st1 EXCEPT !.recording = TRUE,
                                    !.recording_start_time = t,
                                    !.recording_buffer =
                                        Append(RingBufferGetAll(buf), data)],
              result |-> [changed |-> TRUE, data |-> <<>>, saved |-> FALSE]]
        ELSE [state |-> st1, result |-> NoResult]

\* Variant: the end of an episode leaves the sample list and the start time.
OnNoSignificantChange_KeepEpisode(st, t) ==
    IF ~st.recording THEN [state |-> st, result |-> NoResult]
    ELSE IF st.stable_since = None
    THEN [state |-> [st EXCEPT !.stable_since = t], result |-> NoResult]
    ELSE IF StabilizationElapsed(t, st.stable_since)
    THEN [state |-> [st EXCEPT !.recording = FALSE],
          result |-> [changed |-> TRUE, data |-> st.recording_buffer,
                      saved |-> FALSE]]
    ELSE [state |-> st, result |-> NoResult]

OnNoSignificantChange(st, t) ==
    IF ~st.recording THEN [state |-> st, result |-> NoResult]
    ELSE IF st.stable_since = None
    THEN [state |-> [st EXCEPT !.stable_since = t], result |-> NoResult]
    ELSE IF StabilizationElapsed(t, st.stable_since)
    THEN [state |-> [st EXCEPT !.recording = FALSE,
                               !.recording_buffer = <<>>,
                               !.recording_start_time = None],
          result |-> [changed |-> TRUE, data |-> st.recording_buffer,
                      saved |-> FALSE]]
    ELSE [state |-> st, result |-> NoResult]

\* AltitudeAnalyzer.analyze(current_data) at wall-clock time t, with the ring
\* buffer buf as the driver left it.  Returns the new detector and the result.
Analyze(st, buf, data, t) ==
    IF data.altitude = None
    THEN [state |-> AppendIfRecording(st, data), result |-> NoResult]
    ELSE
    LET comparison_data == GetLastNSeconds(buf, comparison_window, t)
        valid_altitudes == ValidAltitudes(comparison_data)
    IN  IF ~st.initialized /\ Len(valid_altitudes) < min_samples_for_comparison
        THEN [state |-> st, result |-> NoResult]
        ELSE
        LET st0 == [st EXCEPT !.initialized = TRUE]
        IN  IF comparison_data = <<>> \/ valid_altitudes = <<>>
            THEN [state |-> AppendIfRecording(st0, data), result |-> NoResult]
            ELSE
            LET st1 == AppendIfRecording(st0, data)
            IN  IF SignificantChange(valid_altitudes, data.altitude)
                THEN OnSignificantChange(st1, buf, data, t)
                ELSE OnNoSignificantChange(st1, t)

(***************************************************************************)
(* main.py: one iteration of AltitudeMonitor.run with the sensor           *)
(* initialized: read, add to the ring buffer, analyze, hand off.           *)
(***************************************************************************)
\* SensorReader.read: a reading, or the all-None reading of a failed read.
SensorRead(t, altitude) == [timestamp |-> t, altitude |-> altitude]

\* A hand-off on every transition, the start of an episode included.
HandOff_OnChange(result) == result.changed

\* if status_changed and data_to_save: save_data(data_to_save)
HandOff(result) == result.changed /\ result.data # <<>>

\* The iteration that starts dt after the last one and reads altitude.
DriverStep(dt, altitude) ==
    /\ now' = now + dt
    /\ LET data == SensorRead(now', altitude)
           buf  == RingBufferAdd(ring_buffer, data)
           out  == Analyze(Detector, buf, data, now')
       IN  /\ current_data' = data
           /\ ring_buffer' = buf
           /\ initialized' = out.state.initialized
           /\ recording' = out.state.recording
           /\ stable_since' = out.state.stable_since
           /\ last_significant_change' = out.state.last_significant_change
           /\ recording_buffer' = out.state.recording_buffer
           /\ recording_start_time' = out.state.recording_start_time
           /\ analyze_result' = [out.result EXCEPT !.saved = HandOff(out.result)]
    /\ UNCHANGED config

DriverTick ==
    \E dt \in Gaps, altitude \in SensorAltitudes \cup {None} :
        /\ now + dt <= MaxTime
        /\ DriverStep(dt, altitude)
        /\ UNCHANGED notDetVars

\* The components as constructed with configuration cfg.
DetInitWith(cfg) ==
    /\ config = cfg
    /\ now = 0
    /\ ring_buffer = <<>>
    /\ current_data = SensorRead(0, None)
    /\ initialized = FALSE
    /\ recording = FALSE
    /\ stable_since = None
    /\ last_significant_change = None
    /\ recording_buffer = <<>>
    /\ recording_start_time = None
    /\ analyze_result = NoResult

DetInit == DetInitWith(DefaultConfig)

DetNext == DriverTick

(***************************************************************************)
(* network.py: NetworkMonitor.  A status is "True" or "False", and "None"  *)
(* before the first one.                                                   *)
(***************************************************************************)
CallbackIds == {1, 2, 3}

\* What the probe of one check does: connect_ex returns 0, returns an error
\* code, or the probe raises (socket() fails, the host name does not
\* resolve: connect_ex raises socket.gaierror instead of returning).
Probes == {"connected", "unreachable", "raises"}

\* for callback in self.status_change_callbacks: callback(is_connected), up
\* to and including the first callback that raises
CallbacksInvoked(callbacks, raising, is_connected) ==
    LET first == {i \in 1..Len(callbacks) :
                     callbacks[i] \in raising
                     /\ \A j \in 1..(i - 1) : callbacks[j] \notin raising}
        upto == IF first = {} THEN Len(callbacks) ELSE CHOOSE i \in first : TRUE
    IN  [i \in 1..upto |-> [callback |-> callbacks[i], status |-> is_connected]]

\* NetworkMonitor.check_connection: the monitor afterwards, the calls made,
\* the value returned, and whether an exception leaves the method (the try
\* spans the whole body and `except Exception` returns False)
CheckConnectionResult(status, callbacks, probe, raising) ==
    IF probe = "raises"
    THEN [last_status |-> status, invoked |-> <<>>, returned |-> "False",
          escaped |-> FALSE]
    ELSE LET is_connected == IF probe = "connected" THEN "True" ELSE "False"
         IN  IF is_connected # status
             THEN [last_status |-> is_connected,
                   invoked |-> CallbacksInvoked(callbacks, raising, is_connected),
                   returned |-> IF \E i \in 1..Len(callbacks) : callbacks[i] \in raising
                                THEN "False" ELSE is_connected,
                   escaped |-> FALSE]
             ELSE [last_status |-> status, invoked |-> <<>>, returned |-> is_connected,
                   escaped |-> FALSE]

check_connection ==
    \E probe \in Probes, raising \in SUBSET CallbackIds :
        LET out == CheckConnectionResult(last_status, status_change_callbacks,
                                         probe, raising)
        IN  /\ last_status' = out.last_status
            /\ invoked' = out.invoked
            /\ last_result' = out.returned
            /\ UNCHANGED status_change_callbacks
            /\ UNCHANGED notNetVars

\* NetworkMonitor.add_status_change_callback
add_status_change_callback ==
    \E callback \in CallbackIds :
        /\ \A i \in 1..Len(status_change_callbacks) :
               status_change_callbacks[i] # callback
        /\ status_change_callbacks' = Append(status_change_callbacks, callback)
        /\ UNCHANGED <<last_status, last_result, invoked>>
        /\ UNCHANGED notNetVars

\* NetworkMonitor.__init__
NetInit ==
    /\ last_status = "None"
    /\ status_change_callbacks = <<>>
    /\ last_result = "None"
    /\ invoked = <<>>

NetNext == check_connection \/ add_status_change_callback

(***************************************************************************)
(* The three loops: AltitudeMonitor.run and the two daemon threads that    *)
(* DatabaseManager.__init__ starts.                                        *)
(***************************************************************************)
Threads == {"worker", "resync"}

\* A thread between two iterations: no lookup result, no work in hand.
NoItem == [data_list |-> <<>>, event_group |-> None]
Idle == [pc |-> "idle", id |-> None, item |-> NoItem]

LoopsInit ==
    /\ running = TRUE
    /\ save_thread_alive = TRUE
    /\ sync_thread_alive = TRUE
    /\ inflight = [t \in Threads |-> Idle]

(***************************************************************************)
(* database.py: DatabaseManager, with the MySQL server and the offline     *)
(* directory it talks to.                                                  *)
(*                                                                         *)
(* Configuration, scaled down: reconnect_delay_seconds 1 (10),             *)
(* max_reconnect_delay 2 (60), reconnect_attempts 2 (5), the cooldown 3    *)
(* (300), the resync sleep 2 (60), max_offline_files 2 (1000).             *)
(***************************************************************************)
raspberry_name == "RaspberryPi-1"
other_raspberry_name == "RaspberryPi-2"
reconnect_attempts == 2
reconnect_delay == 1
max_reconnect_delay == 2
cooldown_duration == 3
sync_interval == 2
max_offline_files == 2

\* Bounds of the model: event groups handed to save_data, injected failures.
MaxGroups == 3
MaxFaults == 1

\* The sample lists handed to save_data: episodes hold at least the valid
\* reading that started them, and may hold readings of failed sensor reads.
GroupInputs ==
    { <<SensorRead(1, 100), SensorRead(2, None), SensorRead(3, 102)>> }

Min(a, b) == IF a < b THEN a ELSE b
Max(a, b) == IF a > b THEN a ELSE b

\* The manager's fields, the server's tables and the directory as one record,
\* threaded through the methods below.
World ==
    [connection |-> connection, txn |-> txn, table |-> table,
     raspberry_id |-> raspberry_id, id_found |-> id_found,
     connection_attempts |-> connection_attempts, in_cooldown |-> in_cooldown,
     cooldown_left |-> cooldown_left, since_attempt |-> since_attempt,
     offline_files |-> offline_files, write_failed |-> write_failed,
     db_up |-> db_up, raspberry_pis |-> raspberry_pis, faults |-> faults]

\* min(reconnect_delay * 2 ** (attempts - 1), max_reconnect_delay)
WaitTime(attempts) ==
    Min(reconnect_delay * 2 ^ (attempts - 1), max_reconnect_delay)

\* A _connect that keeps attempting past reconnect_attempts.
Connect_NoCooldown(w) ==
    IF w.in_cooldown /\ w.cooldown_left > 0 THEN [w |-> w, ok |-> FALSE]
    ELSE
    LET w1 == IF w.in_cooldown
              THEN [w EXCEPT !.in_cooldown = FALSE, !.connection_attempts = 1]
              ELSE w
    IN  IF w1.since_attempt < WaitTime(w1.connection_attempts)
        THEN [w |-> w1, ok |-> FALSE]
        ELSE
        LET w2 == [w1 EXCEPT !.since_attempt = 0]
        IN  IF w2.db_up
            THEN [w |-> [w2 EXCEPT !.connection = "up", !.txn = <<>>,
                                   !.connection_attempts = 1],
                  ok |-> TRUE]
            ELSE [w |-> [w2 EXCEPT !.connection_attempts =
                                       Min(@ + 1, reconnect_attempts + 1)],
                  ok |-> FALSE]

\* DatabaseManager._connect.  A new connection starts with no open transaction.
Connect(w) ==
    IF w.in_cooldown /\ w.cooldown_left > 0 THEN [w |-> w, ok |-> FALSE]
    ELSE
    LET w1 == IF w.in_cooldown
              THEN [w EXCEPT !.in_cooldown = FALSE, !.connection_attempts = 1]
              ELSE w
    IN  IF w1.since_attempt < WaitTime(w1.connection_attempts)
        THEN [w |-> w1, ok |-> FALSE]
        ELSE
        LET w2 == [w1 EXCEPT !.since_attempt = 0]
        IN  IF w2.connection_attempts > reconnect_attempts
            THEN [w |-> [w2 EXCEPT !.in_cooldown = TRUE,
                                   !.cooldown_left = cooldown_duration],
                  ok |-> FALSE]
            ELSE IF w2.db_up
            THEN [w |-> [w2 EXCEPT !.connection = "up", !.txn = <<>>,
                                   !.connection_attempts = 1],
                  ok |-> TRUE]
            ELSE [w |-> [w2 EXCEPT !.connection_attempts = @ + 1], ok |-> FALSE]

\* DatabaseManager._check_connection
CheckConnection(w) ==
    IF w.connection # "up" THEN Connect(w) ELSE [w |-> w, ok |-> TRUE]

\* A lookup that remembers its failure and never asks again.
GetRaspberryPiId_NoRetry(w) ==
    IF w.id_found THEN [w |-> w, id |-> w.raspberry_id]
    ELSE
    LET c == CheckConnection(w)
        result == {r \in c.w.raspberry_pis : r.name = raspberry_name}
    IN  IF ~c.ok THEN [w |-> c.w, id |-> None]
        ELSE IF result # {}
        THEN LET id == (CHOOSE r \in result : TRUE).id
             IN  [w |-> [c.w EXCEPT !.raspberry_id = id, !.id_found = TRUE],
                  id |-> id]
        ELSE [w |-> [c.w EXCEPT !.id_found = TRUE], id |-> None]

\* DatabaseManager._get_raspberry_pi_id
GetRaspberryPiId(w) ==
    IF w.id_found /\ w.raspberry_id # None THEN [w |-> w, id |-> w.raspberry_id]
    ELSE
    LET c == CheckConnection(w)
        result == {r \in c.w.raspberry_pis : r.name = raspberry_name}
    IN  IF ~c.ok THEN [w |-> c.w, id |-> None]
        ELSE IF result # {}
        THEN LET id == (CHOOSE r \in result : TRUE).id
             IN  [w |-> [c.w EXCEPT !.raspberry_id = id, !.id_found = TRUE],
                  id |-> id]
        ELSE [w |-> c.w, id |-> None]

\* datetime.isoformat and datetime.fromisoformat
IsoFormat(timestamp) == <<"iso", timestamp>>
FromIsoFormat(text) == text[2]

\* Variant: no reading is left out.
ValidSamples_All(data_list) == data_list

\* if data.get("altitude") is not None
ValidSamples(data_list) == SelectSeq(data_list, LAMBDA d : d.altitude # None)

\* The tuples of the bulk insert of _save_to_database
InsertValues(data_list, event_group, id) ==
    LET valid == ValidSamples(data_list)
    IN  [i \in 1..Len(valid) |->
            [timestamp |-> valid[i].timestamp, altitude |-> valid[i].altitude,
             event_group |-> event_group, raspberry_pi_id |-> id]]

\* The JSON list of _save_offline
SerializableData(data_list, event_group) ==
    LET valid == ValidSamples(data_list)
    IN  [i \in 1..Len(valid) |->
            [timestamp |-> IsoFormat(valid[i].timestamp),
             altitude |-> valid[i].altitude,
             event_group |-> event_group, raspberry_name |-> raspberry_name]]

\* Variant: the tuples of the sweep in the reverse of the file's order.
SyncValues_Reversed(data, id) ==
    [i \in 1..Len(data) |->
        [timestamp |-> FromIsoFormat(data[Len(data) + 1 - i].timestamp),
         altitude |-> data[Len(data) + 1 - i].altitude,
         event_group |-> data[Len(data) + 1 - i].event_group,
         raspberry_pi_id |-> id]]

\* The tuples of the bulk insert of _sync_offline_data
SyncValues(data, id) ==
    [i \in 1..Len(data) |->
        [timestamp |-> FromIsoFormat(data[i].timestamp),
         altitude |-> data[i].altitude,
         event_group |-> data[i].event_group, raspberry_pi_id |-> id]]

\* open(filename, 'w') and json.dump: a new newest file, or the file of that
\* name rewritten.
WriteFile(files, name, content) ==
    Append(SelectSeq(files, LAMBDA f : f.name # name),
           [name |-> name, content |-> content])

\* os.remove(path)
RemoveFile(files, name) == SelectSeq(files, LAMBDA f : f.name # name)

\* Variant: the record removed is the second oldest, not the oldest.
CleanOfflineFiles_NotOldest(files) ==
    IF Len(files) > max_offline_files
    THEN <<Head(files)>> \o SubSeq(files, 3, Len(files))
    ELSE files

\* DatabaseManager._clean_offline_files: files sorted by mtime, oldest removed
\* while there are more than max_offline_files.
RECURSIVE CleanOfflineFiles(_)
CleanOfflineFiles(files) ==
    IF Len(files) > max_offline_files
    THEN CleanOfflineFiles(Tail(files))
    ELSE files

\* DatabaseManager._save_offline; write_ok: open and json.dump succeed.
SaveOffline(w, data_list, event_group, write_ok) ==
    LET serializable_data == SerializableData(data_list, event_group)
    IN  IF serializable_data = <<>> THEN w
        ELSE IF ~write_ok
        THEN [w EXCEPT !.write_failed = @ \cup {event_group}, !.faults = @ + 1]
        ELSE [w EXCEPT !.offline_files =
                 CleanOfflineFiles(WriteFile(@, event_group, serializable_data))]

\* How cursor.executemany and connection.commit end: "ok"; an Error after
\* rows of the statement were executed, the connection alive; an Error with
\* the connection lost (the server rolls the open transaction back); an
\* Error of commit with the connection alive; the connection lost in commit
\* before the server applied it, or after it did and before its reply came.
Outcomes(n) ==
    {[kind |-> "ok", rows |-> n]}
    \cup {[kind |-> "insert_error", rows |-> k] : k \in 0..(n - 1)}
    \cup {[kind |-> "insert_lost", rows |-> 0], [kind |-> "commit_error", rows |-> n],
          [kind |-> "commit_lost", rows |-> 0], [kind |-> "commit_unacked", rows |-> n]}

\* cursor.executemany(sql, values); connection.commit() on the shared
\* connection.  ok tells whether both returned.
InsertAndCommit(w, values, outcome) ==
    IF w.connection # "up"
    THEN [w |-> w, ok |-> FALSE]
    ELSE IF outcome.kind = "ok"
    THEN [w |-> [w EXCEPT !.table = @ \o w.txn \o values, !.txn = <<>>],
          ok |-> TRUE]
    ELSE IF outcome.kind = "insert_error"
    THEN [w |-> [w EXCEPT !.txn = @ \o SubSeq(values, 1, outcome.rows),
                          !.faults = @ + 1],
          ok |-> FALSE]
    ELSE IF outcome.kind = "commit_error"
    THEN [w |-> [w EXCEPT !.txn = @ \o values, !.faults = @ + 1],
          ok |-> FALSE]
    ELSE IF outcome.kind = "commit_unacked"
    THEN [w |-> [w EXCEPT !.table = @ \o w.txn \o values, !.txn = <<>>,
                          !.connection = "down", !.faults = @ + 1],
          ok |-> FALSE]
    ELSE [w |-> [w EXCEPT !.txn = <<>>, !.connection = "down", !.faults = @ + 1],
          ok |-> FALSE]

\* The finally block of _save_to_database
CloseIfDisconnected(w) ==
    IF w.connection = "down" THEN [w EXCEPT !.connection = "none"] ELSE w

\* DatabaseManager._save_to_database.  "except Error" matches
\* mysql.connector.Error only: with an exception of another class the finally
\* block runs and the exception reaches the handler of _process_save_queue,
\* which logs it.
SaveToDatabase(w, data_list, event_group, id, outcome, write_ok) ==
    LET values == InsertValues(data_list, event_group, id)
    IN  IF values = <<>> THEN CloseIfDisconnected(w)
        ELSE IF outcome.kind = "exception"
        THEN CloseIfDisconnected([w EXCEPT !.faults = @ + 1])
        ELSE
        LET r == InsertAndCommit(w, values, outcome)
        IN  IF r.ok THEN CloseIfDisconnected(r.w)
            ELSE CloseIfDisconnected(
                     SaveOffline(r.w, data_list, event_group, write_ok))

\* One iteration of DatabaseManager._process_save_queue on a dequeued item
ProcessItem(w, item, outcome, write_ok) ==
    LET g == GetRaspberryPiId(w)
        c == IF g.id # None THEN CheckConnection(g.w) ELSE [w |-> g.w, ok |-> FALSE]
    IN  IF g.id # None /\ c.ok
        THEN SaveToDatabase(c.w, item.data_list, item.event_group, g.id,
                            outcome, write_ok)
        ELSE SaveOffline(c.w, item.data_list, item.event_group, write_ok)

\* Assign the record back to the variables it was built from.
SetWorld(w) ==
    /\ connection' = w.connection
    /\ txn' = w.txn
    /\ table' = w.table
    /\ raspberry_id' = w.raspberry_id
    /\ id_found' = w.id_found
    /\ connection_attempts' = w.connection_attempts
    /\ in_cooldown' = w.in_cooldown
    /\ cooldown_left' = w.cooldown_left
    /\ since_attempt' = w.since_attempt
    /\ offline_files' = w.offline_files
    /\ write_failed' = w.write_failed
    /\ db_up' = w.db_up
    /\ raspberry_pis' = w.raspberry_pis
    /\ faults' = w.faults

\* Variant: save_data without its check for an empty list.
Enqueue_NoEmptyCheck(queue, data_list, event_group) ==
    Append(queue, [data_list |-> data_list, event_group |-> event_group])

\* save_data: `if not data_list: return`, else save_queue.put((data_list, event_group))
Enqueue(queue, data_list, event_group) ==
    IF data_list = <<>> THEN queue
    ELSE Append(queue, [data_list |-> data_list, event_group |-> event_group])

\* The lists save_data is called with: an episode's readings, or none.
SaveDataInputs == GroupInputs \cup {<<>>}

\* DatabaseManager.save_data called with one of the lists of inputs: a
\* non-empty list is queued under a new event_group
SaveDataOf(inputs) ==
    \E data_list \in inputs :
        /\ next_group <= MaxGroups
        /\ save_queue' = Enqueue(save_queue, data_list, next_group)
        /\ next_group' = IF data_list = <<>> THEN next_group ELSE next_group + 1
        /\ submitted' = IF data_list = <<>> THEN submitted
                        ELSE Append(submitted, data_list)
        /\ UNCHANGED <<connection, raspberry_id, id_found, connection_attempts,
                       in_cooldown, cooldown_left, since_attempt, sync_pc,
                       sync_files, sync_id, sync_timer, write_failed, db_up,
                       raspberry_pis, table, txn, offline_files, faults>>
        /\ UNCHANGED notStoreVars

SaveData == SaveDataOf(SaveDataInputs)

\* The worker and the resync thread use self.connection and self.cursor
\* without a lock.  While a sweep is in its loop over the files the worker's
\* executemany or commit can, besides every outcome above, raise an exception
\* that is not a mysql.connector.Error.
RaceOutcomes(pc) ==
    IF pc = "files" THEN {[kind |-> "exception", rows |-> 0]} ELSE {}

\* Variant: a queue that hands out the newest item first.
QueueGet_LIFO(queue) ==
    [item |-> queue[Len(queue)], rest |-> SubSeq(queue, 1, Len(queue) - 1)]

\* queue.Queue.get: the oldest item, and the queue without it
QueueGet(queue) == [item |-> Head(queue), rest |-> Tail(queue)]

\* Variant: the handler around the loop, as in AltitudeMonitor.run.
ProcessSaveQueueSurvives_HandlerOutside(raised) == ~raised

\* `while True: try: ... except Exception:` of _process_save_queue and of
\* _sync_offline_data: the handler is inside the loop, it logs (and sleeps)
\* and the loop takes its next iteration whether the body raised or not.
ProcessSaveQueueSurvives(raised) == TRUE
SyncOfflineDataSurvives(raised) == TRUE

\* The write worker: one iteration of _process_save_queue
ProcessSaveQueue ==
    /\ save_thread_alive
    /\ save_queue # <<>>
    /\ \E outcome \in Outcomes(Len(ValidSamples(QueueGet(save_queue).item.data_list)))
                          \cup RaceOutcomes(sync_pc),
          write_ok \in BOOLEAN :
          LET w == ProcessItem(World, QueueGet(save_queue).item, outcome, write_ok)
          IN  /\ w.faults <= MaxFaults
              /\ SetWorld(w)
              /\ save_thread_alive' = ProcessSaveQueueSurvives(w.faults > faults)
    /\ save_queue' = QueueGet(save_queue).rest
    /\ UNCHANGED <<next_group, submitted, sync_pc, sync_files, sync_id, sync_timer>>
    /\ UNCHANGED <<detVars, netVars, running, sync_thread_alive, inflight>>

\* The resync thread after time.sleep(60): identity, connection, os.listdir
SyncStart ==
    /\ sync_thread_alive
    /\ sync_pc = "sleep"
    /\ sync_timer >= sync_interval
    /\ LET g == GetRaspberryPiId(World)
           c == IF g.id # None THEN CheckConnection(g.w)
                ELSE [w |-> g.w, ok |-> FALSE]
           files == [i \in 1..Len(offline_files) |-> offline_files[i].name]
       IN  /\ SetWorld(c.w)
           /\ IF g.id # None /\ c.ok /\ files # <<>>
              THEN /\ sync_pc' = "files"
                   /\ sync_files' = files
                   /\ sync_id' = g.id
                   /\ UNCHANGED sync_timer
              ELSE /\ sync_timer' = 0
                   /\ UNCHANGED <<sync_pc, sync_files, sync_id>>
    /\ UNCHANGED <<save_queue, next_group, submitted>>
    /\ UNCHANGED notStoreVars

\* The files json.load raises on (a file cut short by a crash in the middle
\* of json.dump, say): the per-file `except Exception` logs and the loop goes
\* on to the next file.
UnreadableNames == {-1}

Readable(file_path) == file_path \notin UnreadableNames

\* Variant: the sweep deletes a file it cannot read.
SyncOneFile_DropUnreadable(w, file_path, id, outcome) ==
    LET found == SelectSeq(w.offline_files, LAMBDA f : f.name = file_path)
    IN  IF found = <<>> THEN w
        ELSE IF ~Readable(file_path)
        THEN [w EXCEPT !.offline_files = RemoveFile(@, file_path)]
        ELSE
        LET data_ok == found[1].content
        IN  IF Len(data_ok) > 0 /\ data_ok[1].raspberry_name # raspberry_name THEN w
            ELSE IF data_ok = <<>>
            THEN [w EXCEPT !.offline_files = RemoveFile(@, file_path)]
            ELSE
            LET r == InsertAndCommit(w, SyncValues(data_ok, id), outcome)
            IN  IF r.ok
                THEN [r.w EXCEPT !.offline_files = RemoveFile(@, file_path)]
                ELSE r.w

\* Variant: the sweep deletes the file whether the commit returned or not.
SyncOneFile_RemoveOnFailure(w, file_path, id, outcome) ==
    LET found == SelectSeq(w.offline_files, LAMBDA f : f.name = file_path)
    IN  IF found = <<>> \/ ~Readable(file_path) THEN w
        ELSE
        LET data == found[1].content
        IN  IF Len(data) > 0 /\ data[1].raspberry_name # raspberry_name THEN w
            ELSE [InsertAndCommit(w, SyncValues(data, id), outcome).w
                     EXCEPT !.offline_files = RemoveFile(@, file_path)]

\* Variant: the sweep does not compare the record's device name.
SyncOneFile_NoOwnerCheck(w, file_path, id, outcome) ==
    LET found == SelectSeq(w.offline_files, LAMBDA f : f.name = file_path)
    IN  IF found = <<>> \/ ~Readable(file_path) THEN w
        ELSE
        LET data == found[1].content
        IN  IF data = <<>>
            THEN [w EXCEPT !.offline_files = RemoveFile(@, file_path)]
            ELSE
            LET r == InsertAndCommit(w, SyncValues(data, id), outcome)
            IN  IF r.ok
                THEN [r.w EXCEPT !.offline_files = RemoveFile(@, file_path)]
                ELSE r.w

\* Variant: the file is left in the directory after the commit.
SyncOneFile_KeepFile(w, file_path, id, outcome) ==
    LET found == SelectSeq(w.offline_files, LAMBDA f : f.name = file_path)
    IN  IF found = <<>> \/ ~Readable(file_path) THEN w
        ELSE
        LET data == found[1].content
        IN  IF Len(data) > 0 /\ data[1].raspberry_name # raspberry_name THEN w
            ELSE IF data = <<>>
            THEN [w EXCEPT !.offline_files = RemoveFile(@, file_path)]
            ELSE InsertAndCommit(w, SyncValues(data, id), outcome).w

\* The body of the for loop of _sync_offline_data for one file of the sweep
SyncOneFile(w, file_path, id, outcome) ==
    LET found == SelectSeq(w.offline_files, LAMBDA f : f.name = file_path)
    IN  IF found = <<>> \/ ~Readable(file_path) THEN w
        ELSE
        LET data == found[1].content
        IN  IF Len(data) > 0 /\ data[1].raspberry_name # raspberry_name THEN w
            ELSE IF data = <<>>
            THEN [w EXCEPT !.offline_files = RemoveFile(@, file_path)]
            ELSE
            LET r == InsertAndCommit(w, SyncValues(data, id), outcome)
            IN  IF r.ok
                THEN [r.w EXCEPT !.offline_files = RemoveFile(@, file_path)]
                ELSE r.w

\* The number of entries of the file of that name (0: no such file)
FileLength(files, name) ==
    LET found == SelectSeq(files, LAMBDA f : f.name = name)
    IN  IF found = <<>> THEN 0 ELSE Len(found[1].content)

SyncFile ==
    /\ sync_thread_alive
    /\ sync_pc = "files"
    /\ sync_files # <<>>
    /\ \E outcome \in Outcomes(FileLength(offline_files, Head(sync_files))) :
          LET w == SyncOneFile(World, Head(sync_files), sync_id, outcome)
          IN  /\ w.faults <= MaxFaults
              /\ SetWorld(w)
              /\ sync_thread_alive' = SyncOfflineDataSurvives(w.faults > faults)
    /\ sync_files' = Tail(sync_files)
    /\ UNCHANGED <<save_queue, next_group, submitted, sync_pc, sync_id, sync_timer>>
    /\ UNCHANGED <<detVars, netVars, running, save_thread_alive, inflight>>

\* The sweep is over: the success log, and back to time.sleep(60)
SyncEnd ==
    /\ sync_thread_alive
    /\ sync_pc = "files"
    /\ sync_files = <<>>
    /\ sync_pc' = "sleep"
    /\ sync_timer' = 0
    /\ UNCHANGED <<save_queue, next_group, submitted, connection, raspberry_id,
                   id_found, connection_attempts, in_cooldown, cooldown_left,
                   since_attempt, sync_files, sync_id, write_failed, db_up,
                   raspberry_pis, table, txn, offline_files, faults>>
    /\ UNCHANGED notStoreVars

\* One second passes.
Tick ==
    /\ \/ since_attempt < max_reconnect_delay
       \/ cooldown_left > 0
       \/ sync_pc = "sleep" /\ sync_timer < sync_interval
    /\ since_attempt' = Min(since_attempt + 1, max_reconnect_delay)
    /\ cooldown_left' = Max(cooldown_left - 1, 0)
    /\ sync_timer' = IF sync_pc = "sleep" THEN Min(sync_timer + 1, sync_interval)
                     ELSE sync_timer
    /\ UNCHANGED <<save_queue, next_group, submitted, connection, raspberry_id, id_found,
                   connection_attempts, in_cooldown, sync_pc, sync_files, sync_id,
                   write_failed, db_up, raspberry_pis, table, txn, offline_files,
                   faults>>
    /\ UNCHANGED notStoreVars

\* The server goes away: open connections die, open transactions roll back.
DbDown ==
    /\ db_up /\ faults < MaxFaults
    /\ db_up' = FALSE
    /\ faults' = faults + 1
    /\ connection' = IF connection = "up" THEN "down" ELSE connection
    /\ txn' = <<>>
    /\ UNCHANGED <<save_queue, next_group, submitted, raspberry_id, id_found,
                   connection_attempts, in_cooldown, cooldown_left, since_attempt,
                   sync_pc, sync_files, sync_id, sync_timer, write_failed,
                   raspberry_pis, table, offline_files>>
    /\ UNCHANGED notStoreVars

\* The server comes back.
DbUp ==
    /\ ~db_up
    /\ db_up' = TRUE
    /\ UNCHANGED <<save_queue, next_group, submitted, connection, raspberry_id, id_found,
                   connection_attempts, in_cooldown, cooldown_left, since_attempt,
                   sync_pc, sync_files, sync_id, sync_timer, write_failed,
                   raspberry_pis, table, txn, offline_files, faults>>
    /\ UNCHANGED notStoreVars

\* The device is registered in table raspberry_pis (by the backend).
RegisteredRow == [name |-> raspberry_name, id |-> 1]

Provision ==
    /\ raspberry_pis = {}
    /\ raspberry_pis' = {RegisteredRow}
    /\ UNCHANGED <<save_queue, next_group, submitted, connection, raspberry_id, id_found,
                   connection_attempts, in_cooldown, cooldown_left, since_attempt,
                   sync_pc, sync_files, sync_id, sync_timer, write_failed,
                   db_up, table, txn, offline_files, faults>>
    /\ UNCHANGED notStoreVars

\* An offline file left in the directory by another device's process.
OtherDeviceFile ==
    [name |-> 0,
     content |-> <<[timestamp |-> IsoFormat(0), altitude |-> 100,
                    event_group |-> 0, raspberry_name |-> other_raspberry_name]>>]

InitialDirectories == {<<>>, <<OtherDeviceFile>>}

\* DatabaseManager.__init__: the fields, then the constructor's
\* _check_connection and _get_raspberry_pi_id.
Constructed(up, pis, files) ==
    LET w0 == [connection |-> "none", txn |-> <<>>, table |-> <<>>,
               raspberry_id |-> None, id_found |-> FALSE,
               connection_attempts |-> 1, in_cooldown |-> FALSE,
               cooldown_left |-> 0, since_attempt |-> max_reconnect_delay,
               offline_files |-> files, write_failed |-> {},
               db_up |-> up, raspberry_pis |-> pis, faults |-> 0]
        c == CheckConnection(w0)
    IN  IF c.ok THEN GetRaspberryPiId(c.w).w ELSE c.w

\* The state after construction, for a server that is up or not, a device
\* that is registered or not, and the directory as found.
StoreInitWith(up, pis, files) ==
    /\ save_queue = <<>>
    /\ next_group = 1
    /\ submitted = <<>>
    /\ sync_pc = "sleep"
    /\ sync_files = <<>>
    /\ sync_id = None
    /\ sync_timer = 0
    /\    LET w == Constructed(up, pis, files)
          IN  /\ connection = w.connection
              /\ txn = w.txn
              /\ table = w.table
              /\ raspberry_id = w.raspberry_id
              /\ id_found = w.id_found
              /\ connection_attempts = w.connection_attempts
              /\ in_cooldown = w.in_cooldown
              /\ cooldown_left = w.cooldown_left
              /\ since_attempt = w.since_attempt
              /\ offline_files = w.offline_files
              /\ write_failed = w.write_failed
              /\ db_up = w.db_up
              /\ raspberry_pis = w.raspberry_pis
              /\ faults = w.faults

StoreInit ==
    \E up \in BOOLEAN, pis \in {{}, {RegisteredRow}}, files \in InitialDirectories :
        StoreInitWith(up, pis, files)

StoreNext ==
    \/ SaveData
    \/ ProcessSaveQueue
    \/ SyncStart
    \/ SyncFile
    \/ SyncEnd
    \/ Tick
    \/ DbDown
    \/ DbUp
    \/ Provision

Init == DetInit /\ StoreInit /\ NetInit /\ LoopsInit

\* The detector and its driver alone, the store as constructed with the
\* server reachable and the device registered.
DetSpecInit ==
    DetInit /\ StoreInitWith(TRUE, {RegisteredRow}, <<>>) /\ NetInit /\ LoopsInit

DetSpec == DetSpecInit /\ [][DetNext]_vars

\* A configuration whose minimum number of comparison samples is 2:
\* int(2 s * 2 Hz * 0.5), so the first valid reading does not initialize.
GateConfig ==
    [threshold_meters |-> 1, comparison_window_seconds |-> 2,
     stabilization_time_seconds |-> 2, sample_rate_hz |-> 2,
     ring_buffer_seconds |-> 2]

GateSpecInit ==
    /\ DetInitWith(GateConfig)
    /\ StoreInitWith(TRUE, {RegisteredRow}, <<>>) /\ NetInit /\ LoopsInit

GateSpec == GateSpecInit /\ [][DetNext]_vars

(***************************************************************************)
(* The end-to-end scenario: threshold 1.0 m, comparison window 5 s,        *)
(* stabilization time 5 s, 5 Hz, one reading every 0.2 s.  Time is counted *)
(* in sampling periods here: 5 s are 25 periods, 5 Hz is one reading per   *)
(* period, and now is the number of readings fed.  The ring buffer holds   *)
(* 5 s (the default), 6 s or 10 s.  The feed is 30 readings at 100 m, 10   *)
(* at 105 m, then 100 m for as long as the scenario runs.                  *)
(***************************************************************************)
MaxReadings == 90

ScenarioRingBuffers == {25, 30, 50}

ScenarioConfig(ring_buffer_periods) ==
    [threshold_meters |-> 1, comparison_window_seconds |-> 25,
     stabilization_time_seconds |-> 25, sample_rate_hz |-> 1,
     ring_buffer_seconds |-> ring_buffer_periods]

ScenarioAltitude(i) == IF i <= 30 THEN 100 ELSE IF i <= 40 THEN 105 ELSE 100

ScenarioTick ==
    /\ now < MaxReadings
    /\ DriverStep(1, ScenarioAltitude(now + 1))
    /\ UNCHANGED notDetVars

ScenarioInit ==
    /\ \E rb \in ScenarioRingBuffers : DetInitWith(ScenarioConfig(rb))
    /\ StoreInitWith(TRUE, {RegisteredRow}, <<>>)
    /\ NetInit
    /\ LoopsInit

ScenarioSpec == ScenarioInit /\ [][ScenarioTick]_vars

Next == StoreNext

Spec == Init /\ [][Next]_vars

\* The process starts with the server reachable, the device not yet
\* registered and an empty directory.
ProvisionSpecInit ==
    DetInit /\ StoreInitWith(TRUE, {}, <<>>) /\ NetInit /\ LoopsInit

ProvisionSpec == ProvisionSpecInit /\ [][Next]_vars

\* save_data called with lists that hold invalid readings: an episode with
\* one reading of absent altitude, and a list with no valid reading at all.
FilterInputs ==
    { <<SensorRead(1, 100), SensorRead(2, None)>>,
      <<SensorRead(1, None), SensorRead(2, None)>> }

FilterSpecInit ==
    /\ DetInit
    /\ \E up \in BOOLEAN : StoreInitWith(up, {RegisteredRow}, <<>>)
    /\ NetInit
    /\ LoopsInit

FilterNext ==
    \/ SaveDataOf(FilterInputs)
    \/ ProcessSaveQueue
    \/ SyncStart
    \/ SyncFile
    \/ SyncEnd
    \/ Tick
    \/ DbDown
    \/ DbUp

FilterSpec == FilterSpecInit /\ [][FilterNext]_vars

\* The daemon threads keep running, time passes, and the environment's
\* outages end: the server comes back and the device gets registered.
\* Injected failures are bounded by MaxFaults, so they stop.
Fairness ==
    /\ WF_vars(ProcessSaveQueue)
    /\ WF_vars(SyncStart \/ SyncFile \/ SyncEnd)
    /\ WF_vars(Tick)
    /\ WF_vars(DbUp)
    /\ WF_vars(Provision)

\* The fair behaviours that start with the server reachable and an empty
\* fallback directory, the device provisioned or not yet.
FairInit ==
    /\ DetInit
    /\ \E pis \in {{}, {RegisteredRow}} : StoreInitWith(TRUE, pis, <<>>)
    /\ NetInit
    /\ LoopsInit

FairSpec == FairInit /\ [][Next]_vars /\ Fairness

\* A directory found at start with a file that cannot be read and a file
\* that holds an empty list, older to newer.
UnreadableFile == [name |-> -1, content |-> <<>>]
EmptyFile == [name |-> 0, content |-> <<>>]
MalformedDirectory == <<UnreadableFile, EmptyFile>>

SweepSpecInit ==
    /\ DetInit
    /\ \E pis \in {{}, {RegisteredRow}} :
          StoreInitWith(TRUE, pis, MalformedDirectory)
    /\ NetInit
    /\ LoopsInit

SweepSpec == SweepSpecInit /\ [][Next]_vars /\ Fairness

\* The connectivity monitor alone, the detector and the store as constructed.
NetSpecInit ==
    DetInit /\ StoreInitWith(TRUE, {RegisteredRow}, <<>>) /\ NetInit /\ LoopsInit

NetSpec == NetSpecInit /\ [][NetNext]_vars

(***************************************************************************)
(* The sampling loop with the two daemon threads.  The iteration is taken  *)
(* with the detector's verdict as its input: an episode's readings to hand *)
(* to save_data, or none (the reading, the buffer and the detector step of *)
(* the iteration are DriverStep).                                          *)
(***************************************************************************)
\* AltitudeMonitor.run, one iteration of `while self.running`: the hand-off
\* to save_data and, in a second whose number is a multiple of 10, the
\* connectivity check.  An exception that leaves the body reaches the
\* `except Exception` around the loop, and stop() ends it.
SamplingIteration ==
    /\ running
    /\ \E data_list \in SaveDataInputs, check_due \in BOOLEAN, probe \in Probes,
          raising \in SUBSET {status_change_callbacks[i] :
                                 i \in 1..Len(status_change_callbacks)} :
          LET out == CheckConnectionResult(last_status, status_change_callbacks,
                                           probe, raising)
          IN  /\ data_list # <<>> => next_group <= MaxGroups
              /\ save_queue' = Enqueue(save_queue, data_list, next_group)
              /\ next_group' = IF data_list = <<>> THEN next_group ELSE next_group + 1
              /\ submitted' = IF data_list = <<>> THEN submitted
                              ELSE Append(submitted, data_list)
              /\ IF check_due
                 THEN /\ last_status' = out.last_status
                      /\ invoked' = out.invoked
                      /\ last_result' = out.returned
                      /\ running' = ~out.escaped
                 ELSE UNCHANGED <<last_status, invoked, last_result, running>>
    /\ UNCHANGED <<connection, raspberry_id, id_found, connection_attempts,
                   in_cooldown, cooldown_left, since_attempt, sync_pc,
                   sync_files, sync_id, sync_timer, write_failed, db_up,
                   raspberry_pis, table, txn, offline_files, faults>>
    /\ UNCHANGED <<detVars, status_change_callbacks, save_thread_alive,
                   sync_thread_alive, inflight>>

\* if int(current_time) % 10 == 0: check_connection(); the 10 seconds are
\* CheckPeriod seconds of the model's clock.
CheckPeriod == 3

\* The sampling loop is followed for DriverHorizon seconds.
DriverHorizon == MaxTime - 1

CheckDue(t) == t % CheckPeriod = 0

\* One whole iteration of `while self.running` with the sensor initialized:
\* read, add to the ring buffer, analyze, save_data when analyze hands back a
\* list, then the connectivity check when it is due.  The callback that
\* __init__ registered only stores the status and logs it.
RunIteration ==
    /\ running
    /\ \E dt \in Gaps, altitude \in SensorAltitudes \cup {None} :
       \E probe \in IF CheckDue(now + dt) THEN Probes ELSE {"connected"} :
          LET out == CheckConnectionResult(last_status, status_change_callbacks,
                                           probe, {})
              check_due == CheckDue(now + dt)
          IN  /\ now + dt <= DriverHorizon
              /\ DriverStep(dt, altitude)
              /\ analyze_result'.saved => next_group <= MaxGroups
              /\ save_queue' = IF analyze_result'.saved
                               THEN Enqueue(save_queue, analyze_result'.data,
                                            next_group)
                               ELSE save_queue
              /\ next_group' = IF analyze_result'.saved THEN next_group + 1
                               ELSE next_group
              /\ submitted' = IF analyze_result'.saved
                              THEN Append(submitted, analyze_result'.data)
                              ELSE submitted
              /\ IF check_due
                 THEN /\ last_status' = out.last_status
                      /\ invoked' = out.invoked
                      /\ last_result' = out.returned
                 ELSE UNCHANGED <<last_status, invoked, last_result>>
    /\ UNCHANGED <<connection, raspberry_id, id_found, connection_attempts,
                   in_cooldown, cooldown_left, since_attempt, sync_pc,
                   sync_files, sync_id, sync_timer, write_failed, db_up,
                   raspberry_pis, table, txn, offline_files, faults>>
    /\ UNCHANGED <<status_change_callbacks, loopVars, inflight>>

\* AltitudeMonitor.__init__: the first check, then the registration of
\* _handle_network_status_change (callback 1).
MonitorInit ==
    \E probe \in Probes :
        LET out == CheckConnectionResult("None", <<>>, probe, {})
        IN  /\ last_status = out.last_status
            /\ last_result = out.returned
            /\ invoked = out.invoked
            /\ status_change_callbacks = <<1>>

LoopSpecInit ==
    DetInit /\ StoreInitWith(TRUE, {RegisteredRow}, <<>>) /\ MonitorInit /\ LoopsInit

DriverSpecInit ==
    DetInit /\ StoreInitWith(TRUE, {RegisteredRow}, <<>>) /\ MonitorInit /\ LoopsInit

DriverSpec == DriverSpecInit /\ [][RunIteration]_vars

LoopNext ==
    \/ SamplingIteration
    \/ ProcessSaveQueue
    \/ SyncStart
    \/ SyncFile
    \/ SyncEnd
    \/ Tick

LoopSpec == LoopSpecInit /\ [][LoopNext]_vars

(***************************************************************************)
(* The two daemon threads statement by statement.  Both work on            *)
(* self.connection, self.cursor, self.raspberry_id and self.id_found, and  *)
(* database.py takes no lock anywhere: a thread can be preempted between   *)
(* any two of the statements below.  The server stays reachable here, so   *)
(* every _check_connection returns True at once.                           *)
(*                                                                         *)
(* inflight[t].pc: "idle"; "query" (cache missed, SELECT not yet run);     *)
(* "store" (row fetched, not yet assigned); "resolved" / "unresolved"      *)
(* (_get_raspberry_pi_id has returned); "dump" (the offline file opened    *)
(* for writing, json.dump not yet done); "insert" (about to executemany);  *)
(* "commit" (executemany done, commit not yet).                            *)
(***************************************************************************)
RaceFrame ==
    /\ UNCHANGED <<next_group, submitted, connection, connection_attempts, in_cooldown,
                   cooldown_left, since_attempt, write_failed, db_up, raspberry_pis,
                   faults>>
    /\ UNCHANGED <<detVars, netVars, loopVars>>

\* save_queue.get() returns / time.sleep(60) returns; then the cache check of
\* _get_raspberry_pi_id: `if self.id_found and self.raspberry_id is not None`
BeginIteration(t) ==
    /\ inflight[t].pc = "idle"
    /\ connection = "up"
    /\ IF t = "worker" THEN save_queue # <<>>
       ELSE sync_pc = "sleep" /\ sync_timer >= sync_interval
    /\ LET hit == id_found /\ raspberry_id # None
       IN  inflight' = [inflight EXCEPT ![t] =
               [pc |-> IF hit THEN "resolved" ELSE "query",
                id |-> IF hit THEN raspberry_id ELSE None,
                item |-> IF t = "worker" THEN Head(save_queue) ELSE NoItem]]
    /\ save_queue' = IF t = "worker" THEN Tail(save_queue) ELSE save_queue
    /\ UNCHANGED <<sync_pc, sync_files, sync_id, sync_timer, raspberry_id, id_found,
                   txn, table, offline_files>>
    /\ RaceFrame

\* cursor.execute("SELECT id FROM raspberry_pis WHERE name = %s"); fetchone()
LookupQuery(t) ==
    /\ inflight[t].pc = "query"
    /\ LET result == {r \in raspberry_pis : r.name = raspberry_name}
       IN  inflight' = [inflight EXCEPT ![t].pc = "store",
                                        ![t].id = IF result = {} THEN None
                                                  ELSE (CHOOSE r \in result : TRUE).id]
    /\ UNCHANGED <<save_queue, sync_pc, sync_files, sync_id, sync_timer, raspberry_id,
                   id_found, txn, table, offline_files>>
    /\ RaceFrame

\* `if result: self.raspberry_id = result[0]; self.id_found = True`
LookupStore(t) ==
    /\ inflight[t].pc = "store"
    /\ IF inflight[t].id # None
       THEN /\ raspberry_id' = inflight[t].id
            /\ id_found' = TRUE
            /\ inflight' = [inflight EXCEPT ![t].pc = "resolved"]
       ELSE /\ inflight' = [inflight EXCEPT ![t].pc = "unresolved"]
            /\ UNCHANGED <<raspberry_id, id_found>>
    /\ UNCHANGED <<save_queue, sync_pc, sync_files, sync_id, sync_timer, txn, table,
                   offline_files>>
    /\ RaceFrame

\* What the loop does with the id: the worker builds the values of its
\* insert, or opens the item's offline file for writing (the file is in the
\* directory from then on, with no content yet); the sweep lists the
\* directory, or goes back to sleep.
Dispatch(t) ==
    /\ inflight[t].pc \in {"resolved", "unresolved"}
    /\ IF t = "worker"
       THEN LET item == inflight[t].item
                values == InsertValues(item.data_list, item.event_group, inflight[t].id)
            IN  /\ IF inflight[t].pc = "resolved"
                   THEN /\ inflight' = [inflight EXCEPT ![t] =
                               IF values = <<>> THEN Idle
                               ELSE [inflight[t] EXCEPT !.pc = "insert"]]
                        /\ UNCHANGED offline_files
                   ELSE IF SerializableData(item.data_list, item.event_group) = <<>>
                   THEN /\ inflight' = [inflight EXCEPT ![t] = Idle]
                        /\ UNCHANGED offline_files
                   ELSE /\ inflight' = [inflight EXCEPT ![t].pc = "dump"]
                        /\ offline_files' =
                               WriteFile(offline_files, item.event_group, <<>>)
                /\ UNCHANGED <<sync_pc, sync_files, sync_id, sync_timer>>
       ELSE LET files == [i \in 1..Len(offline_files) |-> offline_files[i].name]
            IN  /\ IF inflight[t].pc = "resolved" /\ files # <<>>
                   THEN /\ sync_pc' = "files"
                        /\ sync_files' = files
                        /\ sync_id' = inflight[t].id
                        /\ inflight' = [inflight EXCEPT ![t].pc = "insert"]
                        /\ UNCHANGED sync_timer
                   ELSE /\ sync_timer' = 0
                        /\ inflight' = [inflight EXCEPT ![t] = Idle]
                        /\ UNCHANGED <<sync_pc, sync_files, sync_id>>
                /\ UNCHANGED offline_files
    /\ UNCHANGED <<save_queue, raspberry_id, id_found, txn, table>>
    /\ RaceFrame

\* json.dump(serializable_data, file) and the end of the with block: the
\* file has its content; then _clean_offline_files.
Dump(t) ==
    /\ t = "worker"
    /\ inflight[t].pc = "dump"
    /\ offline_files' =
           SaveOffline(World, inflight[t].item.data_list,
                       inflight[t].item.event_group, TRUE).offline_files
    /\ inflight' = [inflight EXCEPT ![t] = Idle]
    /\ UNCHANGED <<save_queue, sync_pc, sync_files, sync_id, sync_timer,
                   raspberry_id, id_found, txn, table>>
    /\ RaceFrame

\* self.cursor.executemany(sql, values): the rows join the open transaction
\* of the shared connection.  The sweep first reads its next file, skips
\* another device's and one that has no content yet (json.load raises), and
\* ends when no file is left.
Insert(t) ==
    /\ inflight[t].pc = "insert"
    /\ IF t = "worker"
       THEN LET item == inflight[t].item
            IN  /\ txn' = txn \o InsertValues(item.data_list, item.event_group,
                                               inflight[t].id)
                /\ inflight' = [inflight EXCEPT ![t].pc = "commit"]
                /\ UNCHANGED <<sync_pc, sync_files, sync_timer>>
       ELSE IF sync_files = <<>>
       THEN /\ sync_pc' = "sleep"
            /\ sync_timer' = 0
            /\ inflight' = [inflight EXCEPT ![t] = Idle]
            /\ UNCHANGED <<sync_files, txn>>
       ELSE LET found == SelectSeq(offline_files,
                                   LAMBDA f : f.name = Head(sync_files))
            IN  IF found = <<>> \/ found[1].content = <<>>
                   \/ found[1].content[1].raspberry_name # raspberry_name
                THEN /\ sync_files' = Tail(sync_files)
                     /\ UNCHANGED <<sync_pc, sync_timer, txn, inflight>>
                ELSE /\ txn' = txn \o SyncValues(found[1].content, sync_id)
                     /\ inflight' = [inflight EXCEPT ![t].pc = "commit"]
                     /\ UNCHANGED <<sync_pc, sync_files, sync_timer>>
    /\ UNCHANGED <<save_queue, sync_id, raspberry_id, id_found, table, offline_files>>
    /\ RaceFrame

\* self.connection.commit(): every row of the open transaction, whichever
\* thread inserted it.  The sweep then removes its file.
Commit(t) ==
    /\ inflight[t].pc = "commit"
    /\ table' = table \o txn
    /\ txn' = <<>>
    /\ IF t = "worker"
       THEN /\ inflight' = [inflight EXCEPT ![t] = Idle]
            /\ UNCHANGED <<sync_files, offline_files>>
       ELSE /\ offline_files' = RemoveFile(offline_files, Head(sync_files))
            /\ sync_files' = Tail(sync_files)
            /\ inflight' = [inflight EXCEPT ![t].pc = "insert"]
    /\ UNCHANGED <<save_queue, sync_pc, sync_id, sync_timer, raspberry_id, id_found>>
    /\ RaceFrame

\* The backend deletes the device and creates it again under the same name:
\* the new row has a new id.
ReregisteredRow == [name |-> raspberry_name, id |-> 2]

Reregister ==
    /\ raspberry_pis = {RegisteredRow}
    /\ raspberry_pis' = {ReregisteredRow}
    /\ UNCHANGED <<save_queue, next_group, submitted, connection, raspberry_id, id_found,
                   connection_attempts, in_cooldown, cooldown_left, since_attempt,
                   sync_pc, sync_files, sync_id, sync_timer, write_failed,
                   db_up, table, txn, offline_files, faults>>
    /\ UNCHANGED notStoreVars

\* The server is up and the device not yet registered when the process starts.
RaceSpecInit ==
    DetInit /\ StoreInitWith(TRUE, {}, <<>>) /\ NetInit /\ LoopsInit

RaceNext ==
    \/ \E t \in Threads : BeginIteration(t)
    \/ \E t \in Threads : LookupQuery(t)
    \/ \E t \in Threads : LookupStore(t)
    \/ \E t \in Threads : Dispatch(t)
    \/ \E t \in Threads : Dump(t)
    \/ \E t \in Threads : Insert(t)
    \/ \E t \in Threads : Commit(t)
    \/ SaveData
    \/ Tick
    \/ Provision
    \/ Reregister

RaceSpec == RaceSpecInit /\ [][RaceNext]_vars

(***************************************************************************)
(* _connect statement by statement, called by both daemon threads through  *)
(* _get_raspberry_pi_id and _check_connection.  No lock guards             *)
(* last_connection_attempt, _connection_attempts, _in_cooldown and         *)
(* _cooldown_until.  The server stays unreachable here, so every real      *)
(* attempt fails and every call returns False: the worker then saves its   *)
(* item offline and the sweep goes back to sleep.  The statements of one   *)
(* call run within one second of the clock.                                *)
(*                                                                         *)
(* inflight[t].pc: "idle"; "attempt" (the cooldown and backoff checks of   *)
(* lines 121-146 passed, line 148 not yet run).                            *)
(***************************************************************************)
\* _connect returned False to thread t, in world w: what its loop then does.
Refused(t, w, item) ==
    /\ SetWorld(IF t = "worker"
                THEN SaveOffline(w, item.data_list, item.event_group, TRUE)
                ELSE w)
    /\ sync_timer' = IF t = "resync" THEN 0 ELSE sync_timer
    /\ UNCHANGED <<next_group, submitted, sync_pc, sync_files, sync_id>>
    /\ UNCHANGED <<detVars, netVars, loopVars>>

\* The loop of t calls _connect: lines 116-146, the cooldown check, the
\* reset after an expired cooldown, and the backoff check.
ConnectEnter(t) ==
    /\ inflight[t].pc = "idle"
    /\ connection # "up"
    /\ IF t = "worker" THEN save_queue # <<>>
       ELSE sync_pc = "sleep" /\ sync_timer >= sync_interval
    /\ LET item == IF t = "worker" THEN Head(save_queue) ELSE NoItem
           cooling == in_cooldown /\ cooldown_left > 0
           w1 == IF in_cooldown /\ ~cooling
                 THEN [World EXCEPT !.in_cooldown = FALSE,
                                    !.connection_attempts = 1]
                 ELSE World
       IN  /\ save_queue' = IF t = "worker" THEN Tail(save_queue) ELSE save_queue
           /\ IF cooling \/ w1.since_attempt < WaitTime(w1.connection_attempts)
              THEN /\ Refused(t, w1, item)
                   /\ UNCHANGED inflight
              ELSE /\ inflight' = [inflight EXCEPT ![t] =
                          [pc |-> "attempt", id |-> None, item |-> item]]
                   /\ SetWorld(w1)
                   /\ UNCHANGED <<next_group, submitted, sync_pc, sync_files,
                                  sync_id, sync_timer>>
                   /\ UNCHANGED <<detVars, netVars, loopVars>>

\* Lines 148-182: last_connection_attempt = current_time, then the cooldown
\* entry when the counter is past reconnect_attempts, else get_connection(),
\* which raises here, and the counter goes up.
ConnectAttempt(t) ==
    /\ inflight[t].pc = "attempt"
    /\ LET w2 == [World EXCEPT !.since_attempt = 0]
           w3 == IF w2.connection_attempts > reconnect_attempts
                 THEN [w2 EXCEPT !.in_cooldown = TRUE,
                                 !.cooldown_left = cooldown_duration]
                 ELSE [w2 EXCEPT !.connection_attempts = @ + 1]
       IN  Refused(t, w3, inflight[t].item)
    /\ inflight' = [inflight EXCEPT ![t] = Idle]
    /\ UNCHANGED save_queue

\* One second passes between two calls.
ConnectRaceTick ==
    /\ \A t \in Threads : inflight[t].pc = "idle"
    /\ Tick

\* The server is unreachable when the process starts: the constructor's
\* attempt has failed.
ConnectRaceSpecInit ==
    DetInit /\ StoreInitWith(FALSE, {RegisteredRow}, <<>>) /\ NetInit /\ LoopsInit

ConnectRaceNext ==
    \/ \E t \in Threads : ConnectEnter(t)
    \/ \E t \in Threads : ConnectAttempt(t)
    \/ SaveData
    \/ ConnectRaceTick

ConnectRaceSpec == ConnectRaceSpecInit /\ [][ConnectRaceNext]_vars

(***************************************************************************)
(* Claims about the durable store (checked under Spec and FairSpec)        *)
(***************************************************************************)
GroupIds == 1..MaxGroups

\* The timestamps of the valid samples save_data was given for group g, and
\* those of the committed rows tagged with g.
ValidTimestamps(g) ==
    {submitted[g][i].timestamp : i \in {k \in 1..Len(submitted[g]) :
                                           submitted[g][k].altitude # None}}

CommittedTimestamps(rows, g) ==
    {rows[i].timestamp : i \in {k \in 1..Len(rows) : rows[k].event_group = g}}

InDurableStorage(rows, g) == ValidTimestamps(g) \subseteq CommittedTimestamps(rows, g)

FileNames(files) == {files[i].name : i \in 1..Len(files)}

FileNamed(files, name) == files[CHOOSE i \in 1..Len(files) : files[i].name = name]

\* The file holds every valid sample of group g, tagged with this device.
HoldsGroup(file, g) ==
    /\ file.name = g
    /\ {FromIsoFormat(file.content[i].timestamp) : i \in 1..Len(file.content)}
           = ValidTimestamps(g)
    /\ \A i \in 1..Len(file.content) :
          /\ file.content[i].event_group = g
          /\ file.content[i].raspberry_name = raspberry_name

\* C1: when outages, failures and identity-resolution failures stop, every
\* group handed to save_data is eventually in durable storage (unless its
\* write to the fallback directory failed).  Rows are never deleted from the
\* table, so "eventually" is "from some point on".
C1_EventualPersistence ==
    <>[](\A g \in 1..Len(submitted) :
            InDurableStorage(table, g) \/ g \in write_failed)

\* C2: no sample of any group is committed to durable storage twice.
C2_NoDuplicates ==
    \A i, j \in 1..Len(table) :
        (i # j) => ~(/\ table[i].event_group = table[j].event_group
                     /\ table[i].timestamp = table[j].timestamp)

\* C3: a group the worker dequeues is, after that iteration, either in durable
\* storage or in the fallback directory with all its valid samples, whatever
\* failed (no connection, identity unresolved, an error of the insert or the
\* commit), unless the write to the fallback directory itself failed.
C3_FailureDegradesToFallback ==
    [][(save_queue # <<>> /\ save_queue' = Tail(save_queue))
        => LET g == Head(save_queue).event_group
           IN  \/ InDurableStorage(table', g)
               \/ /\ g \in FileNames(offline_files')
                  /\ HoldsGroup(FileNamed(offline_files', g), g)
               \/ g \in write_failed']_vars

\* C4: durable storage holds all valid samples of a group or none of them.
C4_AllOrNothing ==
    \A g \in GroupIds :
        (g <= Len(submitted))
            => \/ CommittedTimestamps(table, g) = {}
               \/ InDurableStorage(table, g)

\* C5: a step of the resync sweep neither inserts rows of, nor deletes, a
\* fallback record whose device name is not this process's.
OtherDevices(file) ==
    file.content # <<>> /\ file.content[1].raspberry_name # raspberry_name

C5_OwnershipIsolation ==
    [][(sync_pc = "files" /\ sync_files # <<>> /\ sync_files' = Tail(sync_files))
        => \A i \in 1..Len(offline_files) :
              OtherDevices(offline_files[i])
              => /\ \E j \in 1..Len(offline_files') :
                        offline_files'[j] = offline_files[i]
                 /\ \A k \in 1..Len(table') :
                        table'[k].event_group # offline_files[i].name
                 /\ \A k \in 1..Len(txn') :
                        txn'[k].event_group # offline_files[i].name]_vars

\* A sweep with identity and connection has gone through the directory and
\* the other device's record is still there.
C5_Witness ==
    /\ sync_pc = "files" /\ sync_files = <<>>
    /\ \E i \in 1..Len(offline_files) : OtherDevices(offline_files[i])

C7_DeletedOnlyAfterCommit ==
    [][\A i \in 1..Len(offline_files) :
          (offline_files[i].content # <<>>
              /\ offline_files[i].name \in 1..Len(submitted)
              /\ offline_files[i].name \notin FileNames(offline_files'))
          => \A k \in 1..Len(offline_files[i].content) :
                \E r \in 1..Len(table') :
                    /\ table'[r].event_group = offline_files[i].content[k].event_group
                    /\ table'[r].timestamp
                           = FromIsoFormat(offline_files[i].content[k].timestamp)]_vars

(***************************************************************************)
(* Claims about the detector (checked under DetSpec)                       *)
(***************************************************************************)
\* The readings of seq whose timestamp is within seconds of t, and the
\* altitude change of a reading against them, spelled out for the claims.
WindowAltitudes(buf, t) ==
    ValidAltitudes(SelectSeq(buf, LAMBDA d : d.timestamp >= t - comparison_window))

ChangeTimesN(buf, t, altitude) ==
    Abs(altitude * Len(WindowAltitudes(buf, t)) - SumSeq(WindowAltitudes(buf, t)))

\* The reading analyzed in this step is valid and its change against the
\* comparison window (as analyze sees it) is at or above / below threshold.
TickAtOrAbove ==
    /\ current_data'.altitude # None
    /\ WindowAltitudes(ring_buffer', now') # <<>>
    /\ ChangeTimesN(ring_buffer', now', current_data'.altitude)
           >= threshold_meters * Len(WindowAltitudes(ring_buffer', now'))

TickBelow ==
    /\ current_data'.altitude # None
    /\ WindowAltitudes(ring_buffer', now') # <<>>
    /\ ChangeTimesN(ring_buffer', now', current_data'.altitude)
           < threshold_meters * Len(WindowAltitudes(ring_buffer', now'))

\* Before this step the buffer is a constant-altitude stream at altitude a
\* and the comparison window the new reading is compared with is not empty.
ConstantStream(a) ==
    /\ ring_buffer # <<>>
    /\ \A i \in 1..Len(ring_buffer) : ring_buffer[i].altitude = a
    /\ WindowAltitudes(ring_buffer, now') # <<>>

\* C8: with the detector initialized and not recording on a constant-altitude
\* stream, a reading that differs from the mean of the prior comparison
\* window by exactly threshold_meters starts an episode on that tick, and a
\* reading that differs by less does not.
C8_DetectionBoundary ==
    [][\A a \in SensorAltitudes :
          (initialized /\ ~recording /\ ConstantStream(a)
              /\ current_data'.altitude # None)
          => /\ (Abs(current_data'.altitude - a) = threshold_meters
                    => recording' /\ analyze_result'.changed)
             /\ (Abs(current_data'.altitude - a) < threshold_meters
                    => ~recording')]_detVars

\* C9: once the change is below threshold while recording, the episode stays
\* open until stabilization_time seconds of sub-threshold readings have
\* elapsed and is flushed on that tick: the first sub-threshold tick starts
\* the timer and keeps the episode open, the episode never ends before
\* stabilization_time has elapsed since then, and it ends on the first
\* sub-threshold tick at which that time has elapsed.
C9_StabilizationDelay ==
    [][/\ (recording /\ stable_since = None /\ TickBelow)
              => (recording' /\ stable_since' = now' /\ ~analyze_result'.changed)
       /\ (recording /\ ~recording')
              => (stable_since # None /\ now' - stable_since >= stabilization_time)
       /\ (recording /\ stable_since # None /\ TickBelow
              /\ now' - stable_since < stabilization_time)
              => (recording' /\ stable_since' = stable_since)
       /\ (recording /\ stable_since # None /\ TickBelow
              /\ now' - stable_since >= stabilization_time)
              => (~recording' /\ analyze_result'.changed
                    /\ analyze_result'.data # <<>>)]_detVars

\* An episode has just been flushed, exactly stabilization_time seconds after
\* a reading it holds (the first sub-threshold one).
C9_Witness ==
    /\ ~recording /\ analyze_result.changed /\ analyze_result.data # <<>>
    /\ current_data.altitude # None
    /\ \E i \in 1..Len(analyze_result.data) :
          analyze_result.data[i].timestamp = now - stabilization_time

\* C10: while recording with stable_since set, one valid reading whose change
\* is at or above threshold sets stable_since back to none and keeps the
\* episode open; the episode ends only stabilization_time seconds or more
\* after a stable_since that was set later than the last such reading.
C10_StabilizationReset ==
    [][/\ (recording /\ stable_since # None /\ TickAtOrAbove)
              => (recording' /\ stable_since' = None
                    /\ last_significant_change' = now')
       /\ (recording /\ ~recording')
              => (/\ stable_since # None
                  /\ stable_since > last_significant_change
                  /\ now' - stable_since >= stabilization_time)]_detVars

\* 100 at t=1, 102 at t=2 starts the episode, 102 at t=3 is the first stable
\* tick, 100 at t=4 is at or above threshold again: the timer is reset.
C10_Witness ==
    /\ recording /\ stable_since = None /\ now = 4
    /\ last_significant_change = 4 /\ recording_start_time = 2
    /\ [i \in 1..Len(ring_buffer) |-> ring_buffer[i].altitude] = <<102, 102, 100>>

(***************************************************************************)
(* Claims about the end-to-end scenario (checked under ScenarioSpec)       *)
(***************************************************************************)
\* What the analyze call of the reading just fed returned.
EpisodeStarts == analyze_result.changed /\ analyze_result.data = <<>>
EpisodeEnds == analyze_result.changed /\ analyze_result.data # <<>>

\* C11: the scenario yields exactly one episode, which starts at the first
\* 105 m reading (reading 31) and ends after 25 readings back at 100 m,
\* within the 70 readings fed.
C11_EndToEndScenario ==
    /\ EpisodeStarts => now = 31
    /\ EpisodeEnds => now \in 65..70
    /\ now >= 70 => ~recording

\* C11 as the code behaves: the episode starts at reading 31; the returning
\* 100 m readings stay at or above the threshold against a window mean that
\* still holds the 105 m readings, up to and including reading 60 (change
\* exactly 1.0); reading 61 is the first sub-threshold one, and the episode
\* ends 25 periods later at reading 86, not within the 70 readings.
C11_EndToEndScenario_Amended ==
    /\ EpisodeStarts <=> now = 31
    /\ EpisodeEnds <=> now = 86
    /\ recording <=> now \in 31..85
    /\ now \in 31..60 => last_significant_change = now
    /\ now >= 60 => last_significant_change = 60
    /\ now \in 61..85 => stable_since = 61

\* The episode has just been flushed, at reading 86.
C11_Witness == now = 86 /\ EpisodeEnds /\ ~recording

(***************************************************************************)
(* Claims about outages, the queue and the identity cache (checked under   *)
(* Spec)                                                                   *)
(***************************************************************************)
\* The steps of the two threads, told by what they change.
WorkerStep == save_queue # <<>> /\ save_queue' = Tail(save_queue)
ResyncCycleStep ==
    /\ sync_pc = "sleep" /\ sync_timer >= sync_interval
    /\ (sync_pc' = "files" \/ sync_timer' = 0)
ResyncFileStep ==
    sync_pc = "files" /\ sync_files # <<>> /\ sync_files' = Tail(sync_files)

\* The groups of this process that have a record in the fallback directory.
GroupsInFallback ==
    {g \in 1..Len(submitted) :
        g \in FileNames(offline_files) /\ HoldsGroup(FileNamed(offline_files, g), g)}

\* The group is in the fallback directory once the worker has processed it
\* with durable storage unreachable.
FallbackWhenUnreachable ==
    (WorkerStep /\ ~db_up)
        => LET g == Head(save_queue).event_group
           IN  g \in write_failed' \/ g \in GroupsInFallback'

\* A sweep that meets no failure (storage still reachable, no error of the
\* insert or the commit) inserts a group's record and deletes it.
SweepMovesRecord ==
    (ResyncFileStep /\ connection = "up" /\ faults' = faults
        /\ Head(sync_files) \in GroupsInFallback)
        => /\ InDurableStorage(table', Head(sync_files))
           /\ Head(sync_files) \notin FileNames(offline_files')

\* The cycle sweeps every record of this process that is in the directory.
CycleSweepsFallback ==
    \A g \in GroupsInFallback :
        /\ sync_pc' = "files"
        /\ \E i \in 1..Len(sync_files') : sync_files'[i] = g

\* _connect may try: the connection is alive, or no cooldown is running, the
\* backoff wait since the last attempt has elapsed and the attempts are not
\* used up.
ReconnectPermitted ==
    \/ connection = "up"
    \/ /\ ~(in_cooldown /\ cooldown_left > 0)
       /\ LET attempts == IF in_cooldown THEN 1 ELSE connection_attempts
              wait == Min(reconnect_delay * 2 ^ (attempts - 1), max_reconnect_delay)
          IN  since_attempt >= wait /\ attempts <= reconnect_attempts

\* C12: a group processed while durable storage is unreachable is in the
\* fallback directory; once storage is reachable and the identity resolvable,
\* the very next resync cycle sweeps it into durable storage and deletes its
\* record, however many connection attempts failed before.
C12_OutageScenario ==
    [][/\ FallbackWhenUnreachable
       /\ (ResyncCycleStep /\ db_up /\ raspberry_pis # {}) => CycleSweepsFallback
       /\ SweepMovesRecord]_vars

\* C12 as the code behaves: the cycle sweeps only if _connect is permitted to
\* try at that moment; a cycle inside the backoff wait or the cooldown is
\* skipped and the record waits for a later one.
C12_OutageScenario_Amended ==
    [][/\ FallbackWhenUnreachable
       /\ (ResyncCycleStep /\ db_up /\ raspberry_pis # {} /\ ReconnectPermitted)
              => CycleSweepsFallback
       /\ SweepMovesRecord]_vars

\* After an outage the sweep is about to insert a group's fallback record.
C12_Witness ==
    /\ sync_pc = "files" /\ sync_files # <<>> /\ connection = "up" /\ faults > 0
    /\ Head(sync_files) \in GroupsInFallback
    /\ ~InDurableStorage(table, Head(sync_files))

(***************************************************************************)
(* Claims about the history buffer (checked under DetSpec)                 *)
(***************************************************************************)
\* The window lengths and the wall-clock times of a query that are tried.
QueryWindows == 0..4
QueryTimes == now..(now + 2)

\* The result holds exactly the buffered readings not older than t - w: each
\* entry of the result is such a reading, and each such reading is in it once.
ExactlyTheWindow(result, t, w) ==
    /\ \A k \in 1..Len(result) :
           \E i \in 1..Len(ring_buffer) :
               ring_buffer[i] = result[k] /\ ring_buffer[i].timestamp >= t - w
    /\ \A i \in 1..Len(ring_buffer) :
           ring_buffer[i].timestamp >= t - w
               => Cardinality({k \in 1..Len(result) : result[k] = ring_buffer[i]}) = 1
    /\ Len(result) =
           Cardinality({i \in 1..Len(ring_buffer) : ring_buffer[i].timestamp >= t - w})

OldestFirst(result) ==
    \A i, j \in 1..Len(result) : i < j => result[i].timestamp < result[j].timestamp
NewestFirst(result) ==
    \A i, j \in 1..Len(result) : i < j => result[i].timestamp > result[j].timestamp

\* C13: get_last_n_seconds(w) returns exactly the buffered readings whose
\* timestamp is >= now - w, in chronological order.
C13_WindowQuery ==
    \A t \in QueryTimes, w \in QueryWindows :
        LET result == GetLastNSeconds(ring_buffer, w, t)
        IN  ExactlyTheWindow(result, t, w) /\ OldestFirst(result)

\* C13 as the code behaves: the same readings, newest first.
C13_WindowQuery_Amended ==
    \A t \in QueryTimes, w \in QueryWindows :
        LET result == GetLastNSeconds(ring_buffer, w, t)
        IN  ExactlyTheWindow(result, t, w) /\ NewestFirst(result)

\* A query whose window holds two readings and leaves an older one out.
C13_Witness ==
    /\ Len(ring_buffer) = 3
    /\ Len(GetLastNSeconds(ring_buffer, 2, now)) = 2
    /\ GetLastNSeconds(ring_buffer, 2, now)[1] = ring_buffer[3]

\* One add: the buffer afterwards holds the reading just added as its last
\* entry, before it the most recent entries of the buffer before, in their
\* order, and never more than the capacity.
AddKeepsMostRecent ==
    LET old == ring_buffer
        new == ring_buffer'
        kept == Len(new) - 1
    IN  /\ Len(new) <= buffer_size
        /\ Len(new) = Min(Len(old) + 1, buffer_size)
        /\ new[Len(new)] = current_data'
        /\ \A i \in 1..kept : new[i] = old[Len(old) - kept + i]

\* The recording starts from get_all()'s copy: appending the current reading
\* to it (analyzer.py) leaves the buffer with the add alone.
CopyIsIndependent ==
    (~recording /\ recording')
        => /\ recording_buffer' = Append(ring_buffer', current_data')
           /\ Len(recording_buffer') = Len(ring_buffer') + 1

\* C14: the buffer holds at most int(ring_buffer_seconds * sample_rate_hz)
\* readings, the most recently added ones in insertion order, and get_all
\* returns a copy whose mutation does not change the buffer.
C14_HistoryBufferBound ==
    [][AddKeepsMostRecent /\ CopyIsIndependent]_vars

\* The buffer is full, has evicted a reading, and a recording that started
\* from a copy of it has grown past it.
C14_Witness ==
    /\ Len(ring_buffer) = buffer_size /\ ring_buffer[1].timestamp >= 3
    /\ recording /\ Len(recording_buffer) > Len(ring_buffer) + 1

(***************************************************************************)
(* Claims about the connectivity monitor (checked under NetSpec)           *)
(***************************************************************************)
CheckStep == status_change_callbacks' = status_change_callbacks

\* The calls the last check made of one callback.
CallsOf(calls, callback) == {i \in 1..Len(calls) : calls[i].callback = callback}

\* C15: a check whose result differs from the previously observed status
\* invokes every registered callback exactly once, with the new status; a
\* check whose result equals it invokes none.
C15_CallbacksOncePerChange ==
    [][CheckStep =>
        \A i \in 1..Len(status_change_callbacks) :
            LET calls == CallsOf(invoked', status_change_callbacks[i])
            IN  IF last_result' # last_result
                THEN /\ Cardinality(calls) = 1
                     /\ \A k \in calls : invoked'[k].status = last_result'
                ELSE calls = {}]_vars

(***************************************************************************)
(* Claims about the work queue (checked under Spec)                        *)
(***************************************************************************)
\* What save_data(data_list) makes of the queue as it is now: nothing for an
\* empty list, else the queue with one more item, (data_list, event_group),
\* at its end.
EnqueueContract(data_list) ==
    LET queue == Enqueue(save_queue, data_list, next_group)
    IN  IF data_list = <<>>
        THEN queue = save_queue
        ELSE /\ Len(queue) = Len(save_queue) + 1
             /\ SubSeq(queue, 1, Len(save_queue)) = save_queue
             /\ queue[Len(queue)].data_list = data_list
             /\ queue[Len(queue)].event_group = next_group

\* A step of save_data that queued a group.
SaveDataStep == next_group' = next_group + 1

\* save_data returns with the group queued and nothing else done: no
\* connection, transaction, row or file has been touched.
ReturnsWithoutWaiting ==
    SaveDataStep
        => /\ save_queue' = Append(save_queue, [data_list |-> submitted'[next_group],
                                                event_group |-> next_group])
           /\ UNCHANGED <<connection, raspberry_id, id_found, connection_attempts,
                          in_cooldown, cooldown_left, since_attempt, sync_pc,
                          sync_files, sync_id, sync_timer, write_failed, table, txn,
                          offline_files, faults>>

\* C16: save_data with an empty list leaves the queue unchanged; with a
\* non-empty list it adds exactly one item (samples, event_group) and
\* returns without waiting for the worker, the store or the fallback write.
C16_SaveDataEnqueues ==
    [][/\ \A data_list \in SaveDataInputs : EnqueueContract(data_list)
       /\ ReturnsWithoutWaiting]_vars

\* Two groups are queued and the worker has not taken either.
C16_Witness ==
    /\ Len(save_queue) = 2 /\ next_group = 3
    /\ save_queue[2].event_group = 2 /\ save_queue[2].data_list # <<>>

\* A step in which the worker took an item off the queue.
WorkerDequeues == Len(save_queue') = Len(save_queue) - 1

\* The rows this step committed.
NewRows == SubSeq(table', Len(table) + 1, Len(table'))

\* The worker takes the item of the oldest save_data call not yet handled,
\* that one only, and when it is done no later group has a row in durable
\* storage: what the live path commits, it commits in the order of the calls.
WorkerTakesOldest ==
    WorkerDequeues
        => LET g == Head(save_queue).event_group
           IN  /\ g = Len(submitted) - Len(save_queue) + 1
               /\ save_queue' = Tail(save_queue)
               /\ \A i \in 1..Len(NewRows) : NewRows[i].event_group <= g
               /\ \A h \in (g + 1)..Len(submitted) :
                      \A i \in 1..Len(table') : table'[i].event_group # h

\* C18: the worker dequeues groups in the order save_data was called, one
\* group at a time, and the groups written through the live path are
\* committed in the order their episodes completed.
C18_LivePathOrdering == [][WorkerTakesOldest]_vars

\* Two groups went through the live path without a failure, the second after
\* the first, and a third is waiting.
C18_Witness ==
    /\ faults = 0 /\ offline_files = <<>> /\ Len(save_queue) = 1
    /\ InDurableStorage(table, 1) /\ InDurableStorage(table, 2)
    /\ table[1].event_group = 1 /\ table[Len(table)].event_group = 2

Resolved == id_found /\ raspberry_id # None

\* C17: once an id is resolved, raspberry_id never changes again and no call
\* that starts afterwards issues a lookup, also under concurrent calls from
\* the worker and the resync thread.
C17_IdentityCachePermanence ==
    [][Resolved =>
          /\ raspberry_id' = raspberry_id
          /\ id_found'
          /\ \A t \in Threads :
                 inflight[t].pc = "idle" => inflight'[t].pc \notin {"query", "store"}]_vars

\* A thread has inserted and not yet committed.
InTransaction(t) == inflight[t].pc = "commit"

\* C19: the worker and the resync thread are never both between their insert
\* and their commit on the shared connection.
C19_NoConcurrentTransactions ==
    ~(InTransaction("worker") /\ InTransaction("resync"))

(***************************************************************************)
(* Claims about the initialization gate (checked under GateSpec)           *)
(***************************************************************************)
\* int(comparison_window_seconds * sample_rate_hz * 0.5), and the number of
\* valid altitudes in the comparison window of the tick this step analyzes.
GateMinimum == (comparison_window * sample_rate_hz) \div 2

ValidInWindow == Len(WindowAltitudes(ring_buffer', now'))

\* C21: while the detector is uninitialized and the comparison window holds
\* fewer valid altitudes than the minimum, analyze returns (False, None),
\* recording stays false and the detector stays uninitialized; on the first
\* tick where the count reaches the minimum the detector becomes initialized
\* and that same reading is evaluated against the threshold.
C21_InitializationGate ==
    [][/\ (~initialized /\ ValidInWindow < GateMinimum)
              => /\ ~analyze_result'.changed /\ analyze_result'.data = <<>>
                 /\ ~recording' /\ ~initialized'
       /\ (~initialized /\ ValidInWindow >= GateMinimum)
              => /\ initialized'
                 /\ TickAtOrAbove => (recording' /\ analyze_result'.changed)
                 /\ TickBelow => (~recording' /\ ~analyze_result'.changed)]_detVars

\* The detector was initialized by the reading that brought the count to the
\* minimum, and the same reading started an episode: the buffer holds just
\* the minimum number of readings, so no earlier tick could have initialized.
C21_Witness ==
    /\ initialized /\ recording /\ recording_start_time = now
    /\ Len(ring_buffer) = GateMinimum /\ GateMinimum >= 2
    /\ \A i \in 1..Len(ring_buffer) : ring_buffer[i].altitude # None

(***************************************************************************)
(* Claims about the episode and the driver (checked under DetSpec)         *)
(***************************************************************************)
\* C22: when an initialized detector that is not recording analyzes a valid
\* reading whose change is at or above threshold, recording becomes true,
\* stable_since is none, analyze returns (True, None), the episode starts
\* now, and the episode's samples are every reading in the history buffer,
\* in buffer order, followed by the current reading.
C22_EpisodeStart ==
    [][(initialized /\ ~recording /\ TickAtOrAbove)
          => /\ recording' /\ stable_since' = None
             /\ analyze_result'.changed /\ analyze_result'.data = <<>>
             /\ recording_start_time' = now'
             /\ recording_buffer' = Append(ring_buffer', current_data')]_detVars

\* An episode has just started from a buffer whose oldest reading lies
\* outside the comparison window.
C22_Witness ==
    /\ recording /\ recording_start_time = now /\ analyze_result.changed
    /\ Len(ring_buffer) >= 2
    /\ ring_buffer[1].timestamp < now - comparison_window
    /\ recording_buffer = Append(ring_buffer, current_data)

\* C23: when the analyzed reading has no altitude, or the comparison window
\* holds no valid altitude, recording, stable_since, initialized, the episode
\* start time and the time of the last significant change keep their values,
\* the result is (False, None), and the episode's samples change only by the
\* reading appended to them when recording is true.
C23_InvalidTickFrame ==
    [][(current_data'.altitude = None
            \/ WindowAltitudes(ring_buffer', now') = <<>>)
          => /\ recording' = recording /\ stable_since' = stable_since
             /\ initialized' = initialized
             /\ recording_start_time' = recording_start_time
             /\ last_significant_change' = last_significant_change
             /\ ~analyze_result'.changed /\ analyze_result'.data = <<>>
             /\ recording_buffer' = IF recording
                                    THEN Append(recording_buffer, current_data')
                                    ELSE recording_buffer]_detVars

\* An invalid reading has just been appended to an open episode whose
\* stabilization timer is running.
C23_Witness ==
    /\ recording /\ stable_since # None /\ current_data.altitude = None
    /\ recording_buffer # <<>>
    /\ recording_buffer[Len(recording_buffer)] = current_data
    /\ current_data.timestamp = now

\* The tick on which an open episode's stabilization time has elapsed: a
\* valid sub-threshold reading, stabilization_time or more after stable_since.
EndTick ==
    /\ recording /\ stable_since # None /\ TickBelow
    /\ now' - stable_since >= stabilization_time

\* What the ending tick returns and leaves of the episode.
EpisodeEndEffects ==
    /\ analyze_result'.changed
    /\ analyze_result'.data = Append(recording_buffer, current_data')
    /\ ~recording' /\ recording_buffer' = <<>> /\ recording_start_time' = None

\* C24: on the tick where now - stable_since >= stabilization_time while
\* recording, analyze returns (True, samples) with the complete accumulated
\* sample list, and afterwards recording is false, the episode has no
\* samples and no start time, and stable_since is none.
C24_EpisodeEnd ==
    [][EndTick => (EpisodeEndEffects /\ stable_since' = None)]_detVars

\* The episode's samples after this step: the list handed back on the tick
\* the episode ends, the recording buffer otherwise.
SamplesAfter ==
    IF ~recording' THEN analyze_result'.data ELSE recording_buffer'

\* C25: a call of analyze that starts with recording true appends the current
\* reading to the episode's samples exactly once, for a valid and for an
\* invalid reading, in every branch, the tick on which the episode ends
\* included.
C25_AppendOncePerTick ==
    [][recording =>
          /\ SamplesAfter = Append(recording_buffer, current_data')
          /\ ~recording' => (analyze_result'.changed /\ recording_buffer' = <<>>)]_detVars

\* An episode has just ended and the samples handed back end with the
\* current reading, once.
C25_Witness ==
    /\ ~recording /\ analyze_result.changed
    /\ Len(analyze_result.data) >= 3
    /\ analyze_result.data[Len(analyze_result.data)] = current_data
    /\ analyze_result.data[Len(analyze_result.data) - 1] # current_data
    /\ \E i \in 1..Len(analyze_result.data) : analyze_result.data[i].altitude = None

(***************************************************************************)
(* Claims about the sampling loop's iteration (checked under DriverSpec)   *)
(***************************************************************************)
\* C26: every iteration reads one sample, adds it to the history buffer and
\* then analyzes it; save_data is called, once, with the list analyze hands
\* back exactly on the iterations on which analyze hands back a completed
\* list, whatever status the connectivity monitor last reported.
C26_DriverHandOff ==
    [][now' # now =>
          /\ current_data'.timestamp = now'
          /\ ring_buffer' = RingBufferAdd(ring_buffer, current_data')
          /\ analyze_result'.saved <=> analyze_result'.data # <<>>
          /\ \A status \in {"None", "True", "False"} :
                last_status = status =>
                   save_queue' =
                       IF analyze_result'.data # <<>>
                       THEN Append(save_queue,
                                   [data_list |-> analyze_result'.data,
                                    event_group |-> next_group])
                       ELSE save_queue]_vars

\* A completed episode has just been queued while the connectivity monitor
\* reports the network as down.
C26_Witness ==
    /\ last_status = "False" /\ last_result = "False"
    /\ analyze_result.saved /\ save_queue # <<>>
    /\ save_queue[Len(save_queue)].data_list = analyze_result.data
    /\ analyze_result.data[Len(analyze_result.data)] = current_data

(***************************************************************************)
(* Claims about _connect under both threads (checked under ConnectRaceSpec) *)
(***************************************************************************)
\* Thread t makes a real connection attempt in this step: it calls
\* get_connection, the counter not being past reconnect_attempts.
RealAttempt(t) ==
    /\ inflight[t].pc = "attempt" /\ inflight'[t].pc = "idle"
    /\ connection_attempts <= reconnect_attempts

\* C27: a real connection attempt is made only when at least
\* min(reconnect_delay * 2^(k-1), max_reconnect_delay) seconds have passed
\* since the previous one, k being the attempt counter at that moment,
\* whichever way the _connect calls of the threads interleave.
C27_ReconnectBackoff ==
    [][\A t \in Threads :
          RealAttempt(t) => since_attempt >= WaitTime(connection_attempts)]_vars

(***************************************************************************)
(* Claims about the reconnect cooldown (checked under Spec)                *)
(***************************************************************************)
\* A _connect call passes the backoff check in this step: it stamps
\* last_connection_attempt (the wait is at least a second, so the time since
\* the last stamp was not 0 before).
Stamped == since_attempt # 0 /\ since_attempt' = 0

Cooling == in_cooldown /\ cooldown_left > 0
CooldownExpired == in_cooldown /\ cooldown_left = 0

Unprovisioned == \A r \in raspberry_pis : r.name # raspberry_name

\* C29: while table raspberry_pis has no row for the device name, nothing is
\* inserted into durable storage, the lookup's failure leaves no id behind,
\* and every group the worker dequeues is in the fallback directory
\* afterwards (unless the write of its file failed); once the row exists, the
\* next lookup made with a live connection returns and keeps its id, the
\* resync cycle then lists every fallback record of the device, and the sweep
\* moves each one into durable storage.
C29_UnresolvedIdentity ==
    [][/\ Unprovisioned
              => /\ table' = table /\ txn' = txn
                 /\ ~id_found' /\ raspberry_id' = None
       /\ (Unprovisioned /\ WorkerStep)
              => LET g == Head(save_queue).event_group
                 IN  g \in write_failed' \/ g \in GroupsInFallback'
       /\ (~Unprovisioned /\ ~id_found /\ connection = "up"
              /\ (WorkerStep \/ ResyncCycleStep))
              => (id_found' /\ raspberry_id' = RegisteredRow.id)
       /\ (~Unprovisioned /\ connection = "up" /\ ResyncCycleStep)
              => CycleSweepsFallback
       /\ SweepMovesRecord]_vars

\* The server has been reachable all along, the device has been registered
\* and resolved, and the sweep is about to insert a group that went to
\* fallback while the device was unknown.
C29_Witness ==
    /\ faults = 0 /\ db_up /\ connection = "up"
    /\ ~Unprovisioned /\ id_found /\ sync_id = RegisteredRow.id
    /\ sync_pc = "files" /\ sync_files # <<>>
    /\ Head(sync_files) \in GroupsInFallback
    /\ ~InDurableStorage(table, Head(sync_files))

(***************************************************************************)
(* Claims about malformed fallback records (checked under SweepSpec)       *)
(***************************************************************************)
\* The sweep is at a file of the directory that cannot be read / that holds
\* an empty list.
AtUnreadable ==
    /\ sync_pc = "files" /\ sync_files # <<>>
    /\ Head(sync_files) \in UnreadableNames
    /\ Head(sync_files) \in FileNames(offline_files)

AtEmpty ==
    /\ sync_pc = "files" /\ sync_files # <<>>
    /\ Head(sync_files) \in FileNames(offline_files)
    /\ Readable(Head(sync_files))
    /\ FileNamed(offline_files, Head(sync_files)).content = <<>>

\* The sweep deletes a record that holds an empty list, and steps over a
\* record it cannot read: the sweep goes on with the files listed after it.
SweepHandlesMalformed ==
    /\ (AtEmpty /\ ResyncFileStep)
           => Head(sync_files) \notin FileNames(offline_files')
    /\ (AtUnreadable /\ ResyncFileStep)
           => /\ sync_pc' = "files" /\ sync_thread_alive'
              /\ sync_files' = Tail(sync_files)
              /\ table' = table

\* C30: in a resync sweep a record with an empty sample list is deleted, an
\* unreadable record is skipped and the sweep goes on with the later records,
\* and the unreadable record is not tried again in every following cycle for
\* ever: from some point on no sweep is at it any more.
C30_MalformedRecords ==
    /\ [][SweepHandlesMalformed]_vars
    /\ <>[]~AtUnreadable

(***************************************************************************)
(* Claims about the resync sweep's failures (checked under Spec)           *)
(***************************************************************************)
\* The sweep's insert or commit for the file at hand does not return: the
\* connection is dead, or executemany or commit raises.
SweepFailed == connection # "up" \/ faults' > faults

\* The rows of group g in a list of rows.
RowsOf(rows, g) == SelectSeq(rows, LAMBDA r : r.event_group = g)

DetectorConsistent ==
    /\ recording \in BOOLEAN
    /\ ~recording => (recording_buffer = <<>> /\ recording_start_time = None)
    /\ recording => (recording_start_time # None /\ recording_buffer # <<>>)
    /\ recording => initialized

\* C33: after every analyze call the detector is in one of two shapes: not
\* recording, with an empty sample list and no start time, or recording one
\* episode, with a start time, a non-empty sample list and initialized true;
\* and initialized, once true, stays true.
C33_DetectorStateInvariant ==
    /\ [](DetectorConsistent)
    /\ [][initialized => initialized']_vars

\* An episode has started, run for a tick more and ended in this analyze
\* call: the detector is back in the idle shape, still initialized.
C33_Witness ==
    /\ initialized /\ ~recording
    /\ analyze_result.changed /\ Len(analyze_result.data) >= 3
    /\ recording_buffer = <<>> /\ recording_start_time = None

\* No two positions of the list hold the same reading.
NoDuplicates(samples) ==
    \A i, j \in 1..Len(samples) : i # j => samples[i] # samples[j]

\* C34: with the driver adding each reading to the ring buffer before it
\* analyzes it, the list handed off at the end of an episode holds every
\* reading at most once, the reading that started the episode included.
C34_NoReadingTwice ==
    (analyze_result.changed /\ analyze_result.data # <<>>)
        => NoDuplicates(analyze_result.data)

(***************************************************************************)
(* Claims about consecutive episodes (checked under DriverSpec, whose      *)
(* group counter tells how many episodes have been handed off)             *)
(***************************************************************************)
\* C36: on the tick an episode starts stable_since is none, whatever an
\* earlier episode left in it; while the episode runs, a set stable_since is
\* an instant after the episode's start; and the tick that ends the episode
\* measures the stabilization time from such an instant.
C36_NoStabilizationLeak ==
    [][/\ (~recording /\ recording') => stable_since' = None
       /\ (recording' /\ stable_since' # None)
              => stable_since' > recording_start_time'
       /\ (recording /\ ~recording')
              => /\ stable_since # None
                 /\ stable_since > recording_start_time
                 /\ StabilizationElapsed(now', stable_since)]_vars

\* A second episode has just started, after the first was handed off with
\* stable_since left at its first stable tick: stable_since is none again.
C36_Witness ==
    /\ next_group = 2 /\ Len(submitted) = 1
    /\ recording /\ analyze_result.changed
    /\ recording_start_time = now
    /\ stable_since = None

(***************************************************************************)
(* The sampling loop never pauses: the driver's next iteration always      *)
(* comes, for as long as the clock of the model runs.                      *)
(***************************************************************************)
TailSpecInit ==
    DetInit /\ StoreInitWith(TRUE, {RegisteredRow}, <<>>) /\ NetInit /\ LoopsInit

TailSpec == TailSpecInit /\ [][DetNext]_vars /\ WF_vars(DriverTick)

\* The longest gap between two iterations.
MaxGap == 2

\* With sub-threshold readings only, an episode is over this many seconds
\* after any instant at which it is running: the next tick, at most MaxGap
\* later, sets stable_since if it is not set, and the first tick at or after
\* stable_since + stabilization_time comes less than MaxGap after that.
EndsWithin == MaxGap + DefaultConfig.stabilization_time_seconds + MaxGap - 1

\* C35: an episode that is running at an instant after which no reading has
\* a change at or above the threshold, the readings being valid and
\* sub-threshold or invalid, comes to an end: recording becomes false and
\* the samples are handed back.  Stated for the instants that leave the
\* clock EndsWithin seconds to run.
C35_EpisodeTerminates ==
    \A t0 \in 0..(MaxTime - EndsWithin) :
        [](  (recording /\ now = t0)
           => <>(\/ ~recording /\ analyze_result.changed
                                /\ analyze_result.data # <<>>
                 \/ last_significant_change > t0))

(***************************************************************************)
(* Claims about what the two write paths persist (checked under Spec)      *)
(***************************************************************************)
\* The names of the records this process has written: its group ids.
OwnFileNames == FileNames(offline_files) \cap (1..Len(submitted))

\* The sweep commits the record at hand, which this process wrote.
SweepCommitsOwn ==
    /\ ResyncFileStep /\ ~SweepFailed
    /\ Head(sync_files) \in OwnFileNames

AllPresent(rows) == \A i \in 1..Len(rows) : rows[i].altitude # None

\* The groups save_data was given with no valid reading in them.
EmptyGroups == {g \in 1..Len(submitted) : ValidSamples(submitted[g]) = <<>>}

\* C38: every row in durable storage (and every row of the open transaction)
\* and every entry of every fallback record this process wrote has an
\* altitude; the rows and entries of a group are its valid readings only; and
\* a group with no valid reading has no row and no fallback record.
C38_NoInvalidSamplePersisted ==
    /\ AllPresent(table) /\ AllPresent(txn)
    /\ \A i \in 1..Len(offline_files) :
          /\ AllPresent(offline_files[i].content)
          /\ offline_files[i].content # <<>>
    /\ \A g \in 1..Len(submitted) :
          /\ CommittedTimestamps(table \o txn, g) \subseteq ValidTimestamps(g)
          /\ g \in FileNames(offline_files)
                => HoldsGroup(FileNamed(offline_files, g), g)
    /\ \A g \in EmptyGroups :
          /\ RowsOf(table \o txn, g) = <<>>
          /\ g \notin FileNames(offline_files)
          /\ g \notin write_failed

\* The worker has processed three groups: one with no valid reading, one
\* that is in durable storage and one that is in the fallback directory,
\* the last two without their reading of absent altitude.
C38_Witness ==
    /\ Len(submitted) = 3 /\ save_queue = <<>>
    /\ EmptyGroups # {}
    /\ \E g \in 1..3 : g \notin EmptyGroups /\ RowsOf(table, g) # <<>>
    /\ \E g \in 1..3 : g \notin EmptyGroups /\ g \in FileNames(offline_files)

(***************************************************************************)
(* Claims about retention (checked under Spec)                             *)
(***************************************************************************)
\* The records of the directory that another device's process produced.
ForeignFiles(files) ==
    {files[i] : i \in {k \in 1..Len(files) :
                          /\ files[k].content # <<>>
                          /\ files[k].content[1].raspberry_name # raspberry_name}}

\* C39: the retention that follows an offline save deletes only records this
\* process's device name produced: a record of another device that is in the
\* directory before the worker's step is in it afterwards.
C39_RetentionSparesOthers ==
    [][WorkerStep => ForeignFiles(offline_files) \subseteq ForeignFiles(offline_files')]_vars

(***************************************************************************)
(* Claims about the monitor's stored status (checked under NetSpec)        *)
(***************************************************************************)
\* C40: after every call of check_connection the value it returned is the
\* monitor's last_status, also when the probe or a callback raised.
C40_StatusConsistency ==
    [][CheckStep => last_result' = last_status']_vars

(***************************************************************************)
(* Claims about the two threads' use of the fallback directory (checked    *)
(* under RaceSpec)                                                         *)
(***************************************************************************)
\* The worker has opened the file of that name and not yet closed it.
WorkerWriting(name) ==
    /\ inflight["worker"].pc = "dump"
    /\ inflight["worker"].item.event_group = name

\* The sweep opens and loads its next file in this step.
SweepReadsFile ==
    /\ inflight["resync"].pc = "insert" /\ sync_files # <<>>
    /\ (sync_files' # sync_files \/ inflight'["resync"].pc = "commit")

\* The sweep has loaded the file at the head of its list and has not yet
\* committed and removed it.
SweepHoldsFile ==
    /\ inflight["resync"].pc = "commit"
    /\ Head(sync_files) \in FileNames(offline_files)

\* A step of the write worker.
WorkerActs == inflight'["worker"] # inflight["worker"]

\* The sweep does not read a file the worker is still writing.
NoReadWhileWritten == SweepReadsFile => ~WorkerWriting(Head(sync_files))

\* No step of the worker rewrites or removes the file the sweep holds.
NoChangeWhileHeld ==
    (SweepHoldsFile /\ WorkerActs)
        => /\ Head(sync_files) \in FileNames(offline_files')
           /\ FileNamed(offline_files', Head(sync_files))
                  = FileNamed(offline_files, Head(sync_files))

\* C32: the two threads never work on the same fallback record at once: the
\* sweep does not read a file the worker is still writing, and while the
\* sweep holds a file it has read and is inserting, no step of the worker
\* rewrites or removes that file.
C32_FallbackFileExclusivity ==
    [][NoReadWhileWritten /\ NoChangeWhileHeld]_vars

=============================================================================
